---- MODULE Spec2Model ----
(***************************************************************************)
(* A model of the character-sheet fields of src/char_sheet/fields.py:      *)
(* Stat (formula resolution, dependency edges, recalculation), Bonus,      *)
(* Effect and Duration.                                                    *)
(*                                                                         *)
(* Text is modelled as a sequence of atoms (short strings); str.replace    *)
(* is subsequence replacement and eval() is a parser/evaluator over the    *)
(* atoms.  Python numbers are exact rationals <<n, d>> (the interpreter    *)
(* named in src/char_sheet/cli.py:1 is python3, whose "/" is true          *)
(* division); None is the empty tuple.                                     *)
(***************************************************************************)
EXTENDS Integers, Sequences, FiniteSets, TLC

(***************************************************************************)
(* Python values                                                           *)
(***************************************************************************)
None == <<>>

Num(n) == <<n, 1>>

Abs(x) == IF x < 0 THEN -x ELSE x

RECURSIVE GCD(_, _)
GCD(a, b) == IF b = 0 THEN a ELSE GCD(b, a % b)

Norm(n, d) ==
  LET g == GCD(Abs(n), d) IN IF g = 0 THEN <<0, 1>> ELSE <<n \div g, d \div g>>

RAdd(x, y) == Norm(x[1] * y[2] + y[1] * x[2], x[2] * y[2])

RSub(x, y) == Norm(x[1] * y[2] - y[1] * x[2], x[2] * y[2])

\* true division; the caller checks y # 0
RDiv(x, y) ==
  IF y[1] < 0 THEN Norm(-(x[1] * y[2]), x[2] * (-y[1]))
  ELSE Norm(x[1] * y[2], x[2] * y[1])

RLess(x, y) == x[1] * y[2] < y[1] * x[2]

IsInteger(v) == v # None /\ v[2] = 1

(***************************************************************************)
(* Text as sequences of atoms                                              *)
(***************************************************************************)
\* the keys of char.stats and the text of each key
StatNames == {"dexterity", "dex", "ac"}

NameText(k) ==
  CASE k = "dexterity" -> <<"dex", "terity">>
    [] k = "dex" -> <<"dex">>
    [] k = "ac" -> <<"ac">>

\* integer literals that occur in formulas
LitVal == ("0" :> 0) @@ ("1" :> 1) @@ ("2" :> 2) @@ ("3" :> 3) @@ ("10" :> 10)
          @@ ("16" :> 16) @@ ("17" :> 17)

\* str.replace(old, new): every non-overlapping occurrence, left to right
RECURSIVE Replace(_, _, _)
Replace(s, old, new) ==
  IF Len(s) < Len(old) THEN s
  ELSE IF SubSeq(s, 1, Len(old)) = old
       THEN new \o Replace(SubSeq(s, Len(old) + 1, Len(s)), old, new)
       ELSE <<Head(s)>> \o Replace(Tail(s), old, new)

IsPrefix(p, s) == Len(p) <= Len(s) /\ SubSeq(s, 1, Len(p)) = p

Drop(s, k) == SubSeq(s, k + 1, Len(s))

\* a variant of VARS with both sigils reading the value field
VARSBothValue == << <<"$", ".value">>, <<"#", ".value">> >>

(***************************************************************************)
(* Stat.VARS: sigil -> expansion                                           *)
(***************************************************************************)
VARS == << <<"$", ".value">>, <<"#", ".normal">> >>

\* expand % name
Expand(fld, name) == <<"self.char.stats[">> \o name \o <<"]", fld>>

\* the attributes of dir(self) that a formula of the model can name
DirSelf == <<"normal", "protected", "value">>

(***************************************************************************)
(* eval() of an expression over literals, stats[name].field, self.attr,    *)
(* "+", "-", "/" and parentheses, by operator precedence: the operands and *)
(* the pending operators are kept on two stacks.  Any exception            *)
(* (SyntaxError, NameError, AttributeError, TypeError on None,             *)
(* ZeroDivisionError) is the result err = TRUE.                            *)
(***************************************************************************)
\* self.<attr> of stat n: bool counts as 0/1 in arithmetic
AttrVal(st, n, a) ==
  CASE a = ".value" -> st[n].value
    [] a = ".normal" -> st[n].normal
    [] a = ".protected" -> Num(IF st[n].protected THEN 1 ELSE 0)

\* the operand at the head of t: its value and the atoms it takes (0: none)
Operand(st, n, t) ==
  IF Head(t) \in DOMAIN LitVal THEN [val |-> Num(LitVal[Head(t)]), len |-> 1]
  ELSE IF Head(t) = "self.char.stats[" THEN
    LET ks == {x \in StatNames : IsPrefix(NameText(x) \o <<"]">>, Tail(t))} IN
    IF ks = {} THEN [val |-> None, len |-> 0]
    ELSE LET x == CHOOSE y \in ks : TRUE
             u == Drop(Tail(t), Len(NameText(x)) + 1)
         IN IF u = <<>> THEN [val |-> None, len |-> 0]
            ELSE IF Head(u) \notin {".value", ".normal"} THEN [val |-> None, len |-> 0]
            ELSE [val |-> AttrVal(st, x, Head(u)), len |-> Len(NameText(x)) + 3]
  ELSE IF Head(t) = "self" /\ Len(t) > 1 THEN
    IF t[2] \notin {".value", ".normal", ".protected"} THEN [val |-> None, len |-> 0]
    ELSE [val |-> AttrVal(st, n, t[2]), len |-> 2]
  ELSE [val |-> None, len |-> 0]

\* "/" binds tighter than "+" and "-"
Prec(o) == IF o = "/" THEN 2 ELSE 1

\* apply the operator on top of ops to the two operands on top of vals
Reduce(m) ==
  LET o == m.ops[Len(m.ops)]
      y == m.vals[Len(m.vals)]
      x == m.vals[Len(m.vals) - 1]
  IN IF x = None \/ y = None THEN [m EXCEPT !.err = TRUE]
     ELSE IF o = "/" /\ y[1] = 0 THEN [m EXCEPT !.err = TRUE]
     ELSE [m EXCEPT !.ops = SubSeq(@, 1, Len(@) - 1),
                    !.vals = SubSeq(@, 1, Len(@) - 2)
                             \o <<CASE o = "+" -> RAdd(x, y)
                                    [] o = "-" -> RSub(x, y)
                                    [] o = "/" -> RDiv(x, y)>>]

\* one step over the text m.t; m.operand tells that an operand must come next
EvalStep(st, n, m) ==
  LET top == IF m.ops = <<>> THEN "" ELSE m.ops[Len(m.ops)] IN
  IF m.t = <<>> THEN
    IF m.operand \/ top = "(" THEN [m EXCEPT !.err = TRUE]
    ELSE IF top = "" THEN [m EXCEPT !.done = TRUE]
    ELSE Reduce(m)
  ELSE IF m.operand THEN
    IF Head(m.t) = "(" THEN [m EXCEPT !.ops = Append(@, "("), !.t = Tail(@)]
    ELSE LET x == Operand(st, n, m.t) IN
         IF x.len = 0 THEN [m EXCEPT !.err = TRUE]
         ELSE [m EXCEPT !.vals = Append(@, x.val), !.t = Drop(@, x.len),
                        !.operand = FALSE]
  ELSE IF Head(m.t) = ")" THEN
    IF top = "" THEN [m EXCEPT !.err = TRUE]
    ELSE IF top = "(" THEN [m EXCEPT !.ops = SubSeq(@, 1, Len(@) - 1), !.t = Tail(@)]
    ELSE Reduce(m)
  ELSE IF Head(m.t) \in {"+", "-", "/"} THEN
    IF top \notin {"", "("} /\ Prec(top) >= Prec(Head(m.t)) THEN Reduce(m)
    ELSE [m EXCEPT !.ops = Append(@, Head(m.t)), !.t = Tail(@), !.operand = TRUE]
  ELSE [m EXCEPT !.err = TRUE]

RECURSIVE EvalRun(_, _, _)
EvalRun(st, n, m) ==
  IF m.err \/ m.done THEN m ELSE EvalRun(st, n, EvalStep(st, n, m))

\* eval(s) in the scope of a method of stat n
Eval(st, n, s) ==
  LET m == EvalRun(st, n, [t |-> s, vals |-> <<>>, ops |-> <<>>,
                           operand |-> TRUE, err |-> FALSE, done |-> FALSE])
  IN IF m.err THEN [err |-> TRUE, val |-> None]
     ELSE [err |-> FALSE, val |-> m.vals[1]]

(***************************************************************************)
(* The context (the Character): its configuration is data supplied to the *)
(* fields; char.stats holds one Stat object per key of StatNames and       *)
(* char.bonuses one Bonus object per key of BonusNames.                    *)
(***************************************************************************)
BonusNames == {"b1", "b2", "b3"}

EffectNames == {"e1", "e2"}

\* char.BONUS_TYPES: empty = every type is allowed
BONUS_TYPES == {}

\* char.BONUS_PERM: the categories that are never switched off
BONUS_PERM == {"inherent"}

\* char._stacks(typ)
Stacks(typ) == typ \in {"dodge", "none"}

\* the formulas given to Stat(name, formula) and Stat.set_formula
Formulas(k) ==
  CASE k = "dexterity" -> { <<"17">>, <<"16", "+", "@", "protected">> }
    [] k = "dex" -> { <<"(", "$", "dex", "terity", "-", "10", ")", "/", "2">> }
    [] k = "ac" -> { <<"10", "+", "#", "dex">>,
                     <<"$", "{", "dex", "}", "+", "$", "dex", "terity">>,
                     <<"$", "dex", "+", "$", "str">> }

\* the orders in which the keys were inserted into char.stats
Orders == { <<"dexterity", "dex", "ac">>, <<"dex", "dexterity", "ac">> }

\* the recursion limit of the interpreter, scaled to the model
MaxDepth == 4

\* the calls of the model stop once a stat exceeds this value
MaxValue == 40

\* the most rounds a duration is advanced to
MaxRounds == 6

VARIABLES
  order,     \* the iteration order of the dict char.stats
  stats,     \* char.stats: key -> the fields of the Stat object
  bonuses,   \* char.bonuses: key -> the fields of the Bonus object
  effects,   \* char.effects: key -> the fields of the Effect object
  op,        \* the call that returned last and how it ended
  before     \* the fields of op.on when the call before the last was its
             \* successful plug and the last its successful unplug

vars == <<order, stats, bonuses, effects, op, before>>

\* Stat.__init__(name, formula)
NewStat(k, f) ==
  [char |-> FALSE, formula |-> f, original |-> f, bonuses |-> <<>>,
   protected |-> (Head(NameText(k)) = "_"),
   uses |-> {}, usedby |-> {}, normal |-> None, value |-> None,
   root |-> TRUE, leaf |-> TRUE]

Out(st, err) == [st |-> st, err |-> err]

(***************************************************************************)
(* Stat.calc                                                               *)
(***************************************************************************)
\* [b.get_value() for b in bonuses if b.active] for the list of one type
RECURSIVE ActiveValues(_, _, _)
ActiveValues(bn, seq, typ) ==
  IF seq = <<>> THEN <<>>
  ELSE (IF bn[Head(seq)].typ = typ /\ bn[Head(seq)].active
        THEN <<bn[Head(seq)].value>> ELSE <<>>)
       \o ActiveValues(bn, Tail(seq), typ)

\* sum(bonuses)
RECURSIVE SumSeq(_)
SumSeq(l) == IF l = <<>> THEN 0 ELSE Head(l) + SumSeq(Tail(l))

\* max(bonuses) of a non-empty list
RECURSIVE MaxSeq(_)
MaxSeq(l) ==
  IF Len(l) = 1 THEN Head(l)
  ELSE LET m == MaxSeq(Tail(l)) IN IF Head(l) > m THEN Head(l) ELSE m

\* a variant of TypeBonus: max() for every type, stacking or not
TypeBonusMax(bn, seq, typ) ==
  LET vs == {bn[seq[i]].value :
               i \in {j \in DOMAIN seq : bn[seq[j]].typ = typ /\ bn[seq[j]].active}}
  IN IF vs = {} THEN 0 ELSE CHOOSE v \in vs : \A w \in vs : w <= v

\* what one type adds to self.value
TypeBonus(bn, seq, typ) ==
  LET l == ActiveValues(bn, seq, typ) IN
  IF l = <<>> THEN 0
  ELSE IF Stacks(typ) THEN SumSeq(l)
  ELSE MaxSeq(l)

\* the types of self.bonuses whose list of active values is not empty
ActiveTypes(bn, seq) ==
  {bn[seq[i]].typ : i \in {j \in DOMAIN seq : bn[seq[j]].active}}

RECURSIVE SumTypes(_, _, _)
SumTypes(bn, seq, types) ==
  IF types = {} THEN 0
  ELSE LET t == CHOOSE x \in types : TRUE IN
       TypeBonus(bn, seq, t) + SumTypes(bn, seq, types \ {t})

\* formula.replace('.value','.normal')
NormalText(s) == Replace(s, <<".value">>, <<".normal">>)

\* a variant of SetValue: "self.value += eval(self.formula)"
SetValueAdding(st, n, v) ==
  [st EXCEPT ![n].value = IF @ = None \/ v = None THEN v ELSE RAdd(@, v)]

\* "self.value = eval(self.formula)"
SetValue(st, n, v) == [st EXCEPT ![n].value = v]

\* the propagation test of calc
Changed(old_v, old_n, st, n) == old_v # st[n].value \/ old_n # st[n].normal

RECURSIVE CalcOutcomes(_, _, _, _)

\* for stat in self.usedby: stat.calc(), in any order of the set
RECURSIVE Bubble(_, _, _, _)
Bubble(st, bn, todo, d) ==
  IF todo = {} THEN {Out(st, "ok")}
  ELSE UNION { UNION { IF o.err = "ok" THEN Bubble(o.st, bn, todo \ {t}, d)
                       ELSE {o}
                       : o \in CalcOutcomes(st, bn, t, d + 1) }
               : t \in todo }

\* "if old_v!=self.value or old_n!=self.normal": old holds the fields at
\* entry, st those computed
CalcBubble(old, st, bn, n, d) ==
  IF Changed(old[n].value, old[n].normal, st, n)
  THEN Bubble(st, bn, st[n].usedby, d)
  ELSE {Out(st, "ok")}

\* "for (typ,bonuses) in self.bonuses.items(): ... self.value += ..."
AddTypes(st, bn, n) ==
  IF ActiveTypes(bn, st[n].bonuses) = {} THEN st
  ELSE [st EXCEPT ![n].value =
          RAdd(@, Num(SumTypes(bn, st[n].bonuses, ActiveTypes(bn, st[n].bonuses))))]

\* calc from "self.value = eval(self.formula)" on; ev is what eval gave
CalcValue(old, st, bn, n, d, ev) ==
  IF ev.err THEN {Out(st, "EvalError")}
  ELSE IF ActiveTypes(bn, st[n].bonuses) # {} /\ ev.val = None
  THEN {Out(SetValue(st, n, ev.val), "TypeError")}
  ELSE CalcBubble(old, AddTypes(SetValue(st, n, ev.val), bn, n), bn, n, d)

\* calc from "self.normal = eval(...)" on; en is what eval gave
CalcNormal(old, bn, n, d, en) ==
  IF en.err THEN {Out(old, "EvalError")}
  ELSE CalcValue(old, [old EXCEPT ![n].normal = en.val], bn, n, d,
                 Eval([old EXCEPT ![n].normal = en.val], n, old[n].formula))

\* every way stat.calc() can end: the stats afterwards and "ok" or the exception
CalcOutcomes(st, bn, n, d) ==
  IF d > MaxDepth THEN {Out(st, "RecursionError")}
  ELSE IF ~st[n].char THEN {Out(st, "RuntimeError")}
  ELSE CalcNormal(st, bn, n, d, Eval(st, n, NormalText(st[n].formula)))

(***************************************************************************)
(* Stat.plug                                                               *)
(***************************************************************************)
\* the two replace calls for one sigil and one name
ReplaceAlias(s, var, name) ==
  LET s1 == Replace(s, <<var[1]>> \o name, Expand(var[2], name)) IN
  Replace(s1, <<var[1], "{">> \o name \o <<"}">>, Expand(var[2], name))

\* a variant of Scanned without "usedby.add(char.stats[name])"
ScannedNoUsedby(acc, k, s2) ==
  IF s2 # acc.s
  THEN [s |-> s2, uses |-> acc.uses \cup {k}, root |-> FALSE,
        usedby |-> acc.usedby]
  ELSE acc

\* "if s!=orig: self.uses.add(name) ..."; acc = [s, uses, root, usedby]
Scanned(acc, k, s2) ==
  IF s2 # acc.s
  THEN [s |-> s2, uses |-> acc.uses \cup {k}, root |-> FALSE,
        usedby |-> acc.usedby \cup {k}]
  ELSE acc

\* the body of "for (var,expand) in self.VARS.items()" for one name k
RECURSIVE ScanVars(_, _, _)
ScanVars(acc, k, i) ==
  IF i > Len(VARS) THEN acc
  ELSE ScanVars(Scanned(acc, k, ReplaceAlias(acc.s, VARS[i], NameText(k))),
                k, i + 1)

\* "for name in char.stats", the keys visited in the order given
RECURSIVE ScanStats(_, _, _)
ScanStats(acc, keys, i) ==
  IF i > Len(keys) THEN acc
  ELSE ScanStats(ScanVars(acc, keys[i], 1), keys, i + 1)

\* "for name in dir(self)": the @ aliases
RECURSIVE ScanAttrs(_, _)
ScanAttrs(s, i) ==
  IF i > Len(DirSelf) THEN s
  ELSE LET a == DirSelf[i]
           dot == CASE a = "normal" -> ".normal"
                    [] a = "protected" -> ".protected"
                    [] a = "value" -> ".value"
           s1 == Replace(s, <<"@", a>>, <<"self", dot>>)
           s2 == Replace(s1, <<"@", "{", a, "}">>, <<"self", dot>>)
       IN ScanAttrs(s2, i + 1)

\* add ourselves as a dependant to the stats that are in our formula
RECURSIVE AddDependant(_, _, _)
AddDependant(st, n, usedby) ==
  IF usedby = {} THEN st
  ELSE LET k == CHOOSE x \in usedby : TRUE IN
       AddDependant([st EXCEPT ![k].usedby = @ \cup {n}, ![k].leaf = FALSE],
                    n, usedby \ {k})

\* plug from the eval of the resolved text s on; st has char, uses and root
\* set, usedby is the local set of the stats found in the formula
PlugEval(st, bn, n, usedby, s) ==
  IF Eval(st, n, s).err THEN {Out(st, "FormulaError")}
  ELSE CalcOutcomes([AddDependant(st, n, usedby) EXCEPT ![n].formula = s],
                    bn, n, 0)

\* plug after the loop over char.stats, whose result is acc
PlugScanned(st, bn, n, acc) ==
  PlugEval([st EXCEPT ![n].char = TRUE, ![n].uses = acc.uses,
                      ![n].root = acc.root],
           bn, n, acc.usedby, ScanAttrs(acc.s, 1))

\* every way stat.plug(char) can end
PlugOutcomes(st, bn, n, keys) ==
  PlugScanned(st, bn, n,
              ScanStats([s |-> st[n].formula, uses |-> st[n].uses,
                         root |-> st[n].root, usedby |-> {}], keys, 1))

(***************************************************************************)
(* Stat.unplug                                                             *)
(***************************************************************************)
\* "for name in self.uses: stat.usedby.remove(self.name)", in any order of
\* the set; remove() of an absent name raises KeyError
RECURSIVE RemoveEdges(_, _, _)
RemoveEdges(st, n, todo) ==
  IF todo = {} THEN {Out(st, "ok")}
  ELSE UNION {
    IF n \notin st[k].usedby THEN {Out(st, "KeyError")}
    ELSE LET left == st[k].usedby \ {n} IN
         RemoveEdges([st EXCEPT ![k].usedby = left,
                                ![k].leaf = IF left = {} THEN TRUE ELSE @],
                     n, todo \ {k})
    : k \in todo }

\* a variant of Detach without "self.formula = self.original"
DetachKeeping(st, n) ==
  LET st1 == [st EXCEPT ![n].usedby = {}] IN
  { IF o.err # "ok" THEN o
    ELSE Out([o.st EXCEPT ![n].uses = {}, ![n].root = TRUE, ![n].leaf = TRUE,
                          ![n].char = FALSE], "ok")
    : o \in RemoveEdges(st1, n, st1[n].uses) }

\* the part of unplug after the dependants are dealt with
Detach(st, n) ==
  LET st1 == [st EXCEPT ![n].usedby = {}, ![n].formula = st[n].original] IN
  { IF o.err # "ok" THEN o
    ELSE Out([o.st EXCEPT ![n].uses = {}, ![n].root = TRUE, ![n].leaf = TRUE,
                          ![n].char = FALSE], "ok")
    : o \in RemoveEdges(st1, n, st1[n].uses) }

\* a variant of unplug without the DependencyError test
UnplugUnchecked(st, n, force, recursive, d) ==
  IF ~st[n].char THEN {Out(st, "RuntimeError")} ELSE Detach(st, n)

RECURSIVE UnplugOutcomes(_, _, _, _, _)
RECURSIVE UnplugDependants(_, _, _, _, _)

\* every way stat.unplug(force, recursive) can end
UnplugOutcomes(st, n, force, recursive, d) ==
  IF d > MaxDepth THEN {Out(st, "RecursionError")}
  ELSE IF ~st[n].char THEN {Out(st, "RuntimeError")}
  ELSE IF st[n].usedby # {} /\ ~force /\ ~recursive
  THEN {Out(st, "DependencyError")}
  ELSE IF recursive
  THEN UNION { IF o.err # "ok" THEN {o} ELSE Detach(o.st, n)
               : o \in UnplugDependants(st, n, st[n].usedby,
                                        Cardinality(st[n].usedby), d) }
  ELSE Detach(st, n)

\* "for name in self.usedby: stat.unplug(recursive=recursive)": the set
\* iterator raises RuntimeError when the set changed size since the loop began
UnplugDependants(st, n, todo, size, d) ==
  IF Cardinality(st[n].usedby) # size THEN {Out(st, "RuntimeError")}
  ELSE IF todo = {} THEN {Out(st, "ok")}
  ELSE UNION { UNION { IF o.err # "ok" THEN {o}
                       ELSE UnplugDependants(o.st, n, todo \ {t}, size, d)
                       : o \in UnplugOutcomes(st, t, FALSE, TRUE, d + 1) }
               : t \in todo }

(***************************************************************************)
(* Bonus                                                                   *)
(***************************************************************************)
\* Bonus.__init__(name, value, stats, typ, cond, text, active)
NewBonus(value, targets, typ, cond, active) ==
  [char |-> FALSE, value |-> value, stats |-> targets, typ |-> typ,
   condition |-> cond, active |-> (IF cond # "" THEN FALSE ELSE active),
   last |-> active, usedby |-> {}]

OutB(st, bn, err) == [st |-> st, bn |-> bn, err |-> err]

InSeq(x, seq) == \E i \in DOMAIN seq : seq[i] = x

\* Stat.add_bonus
AddBonus(st, k, b) == [st EXCEPT ![k].bonuses = Append(@, b)]

\* Stat.del_bonus: the list of the type without this bonus
RECURSIVE Without(_, _)
Without(seq, b) ==
  IF seq = <<>> THEN <<>>
  ELSE (IF Head(seq) = b THEN <<>> ELSE <<Head(seq)>>) \o Without(Tail(seq), b)

\* a variant of IsPermanent: no bonus is ever permanent
IsPermanentNever(bn, b) == FALSE

\* the permanence test of Bonus.plug and Bonus.toggle
IsPermanent(bn, b) == bn[b].condition = "" /\ bn[b].typ \in BONUS_PERM

\* "for name in self.stats: stat.add_bonus(self); stat.calc()"
RECURSIVE PlugStats(_, _, _, _)
PlugStats(st, bn, b, i) ==
  IF i > Len(bn[b].stats) THEN {OutB(st, bn, "ok")}
  ELSE UNION { IF o.err # "ok" THEN {OutB(o.st, bn, o.err)}
               ELSE PlugStats(o.st, bn, b, i + 1)
               : o \in CalcOutcomes(AddBonus(st, bn[b].stats[i], b), bn,
                                    bn[b].stats[i], 0) }

\* every way bonus.plug(char) can end
BonusPlugOutcomes(st, bn, b) ==
  IF BONUS_TYPES # {} /\ bn[b].typ \notin BONUS_TYPES
  THEN {OutB(st, bn, "ValueError")}
  ELSE { IF o.err # "ok" THEN o
         ELSE OutB(o.st,
                   [bn EXCEPT ![b].char = TRUE,
                              ![b].active = IF IsPermanent(bn, b) THEN TRUE ELSE @],
                   "ok")
         : o \in PlugStats(st, bn, b, 1) }

\* "for name in self.stats: stat.del_bonus(self); stat.calc()"
RECURSIVE UnplugStats(_, _, _, _)
UnplugStats(st, bn, b, i) ==
  IF i > Len(bn[b].stats) THEN {OutB(st, bn, "ok")}
  ELSE LET k == bn[b].stats[i] IN
       IF \A j \in DOMAIN st[k].bonuses : bn[st[k].bonuses[j]].typ # bn[b].typ
       THEN {OutB(st, bn, "KeyError")}
       ELSE UNION { IF o.err # "ok" THEN {OutB(o.st, bn, o.err)}
                    ELSE UnplugStats(o.st, bn, b, i + 1)
                    : o \in CalcOutcomes(
                              [st EXCEPT ![k].bonuses = Without(@, b)], bn, k, 0) }

\* every way bonus.unplug() can end
BonusUnplugOutcomes(st, bn, b) ==
  IF ~bn[b].char THEN {OutB(st, bn, "RuntimeError")}
  ELSE { IF o.err # "ok" THEN o
         ELSE OutB(o.st, [bn EXCEPT ![b].char = FALSE], "ok")
         : o \in UnplugStats(st, bn, b, 1) }

\* Bonus.calc: "for name in self.stats: self.char.stats[name].calc()"
RECURSIVE CalcStats(_, _, _, _)
CalcStats(st, bn, b, i) ==
  IF ~bn[b].char THEN {OutB(st, bn, "AttributeError")}
  ELSE IF i > Len(bn[b].stats) THEN {OutB(st, bn, "ok")}
  ELSE UNION { IF o.err # "ok" THEN {OutB(o.st, bn, o.err)}
               ELSE CalcStats(o.st, bn, b, i + 1)
               : o \in CalcOutcomes(st, bn, bn[b].stats[i], 0) }

\* every way bonus.toggle(new) can end
ToggleOutcomes(st, bn, b, new) ==
  IF bn[b].condition = "" /\ ~bn[b].char THEN {OutB(st, bn, "AttributeError")}
  ELSE IF IsPermanent(bn, b) THEN {OutB(st, bn, "ok")}
  ELSE CalcStats(st, [bn EXCEPT ![b].last = bn[b].active, ![b].active = new],
                 b, 1)

\* every way bonus.off(force) can end: the members of usedby are the names
\* of Effects (strings), so is_active() of the first one raises
OffOutcomes(st, bn, b, force) ==
  IF force \/ bn[b].usedby = {} THEN ToggleOutcomes(st, bn, b, FALSE)
  ELSE {OutB(st, bn, "AttributeError")}

\* every way bonus.revert() can end
RevertOutcomes(st, bn, b) ==
  IF bn[b].active = bn[b].last THEN {OutB(st, bn, "ok")}
  ELSE CalcStats(st, [bn EXCEPT ![b].active = bn[b].last], b, 1)

(***************************************************************************)
(* Duration and Effect                                                     *)
(***************************************************************************)
\* Duration.INF
INF == -1

\* the characters of a duration text; int(c) succeeds on the digits
Digits == {"0", "1", "2", "3", "4", "5", "6", "7", "8", "9"}

DigitVal ==
  ("0" :> 0) @@ ("1" :> 1) @@ ("2" :> 2) @@ ("3" :> 3) @@ ("4" :> 4) @@
  ("5" :> 5) @@ ("6" :> 6) @@ ("7" :> 7) @@ ("8" :> 8) @@ ("9" :> 9)

\* Duration.is_int on one character
IsInt(c) == c \in Digits

\* str.lower on one character
Upper == <<"A", "B", "C", "D", "E", "F", "G", "H", "I", "J", "K", "L", "M",
           "N", "O", "P", "Q", "R", "S", "T", "U", "V", "W", "X", "Y", "Z">>

Lower == <<"a", "b", "c", "d", "e", "f", "g", "h", "i", "j", "k", "l", "m",
           "n", "o", "p", "q", "r", "s", "t", "u", "v", "w", "x", "y", "z">>

LowerChar(c) ==
  IF \E i \in DOMAIN Upper : Upper[i] = c
  THEN Lower[CHOOSE i \in DOMAIN Upper : Upper[i] = c]
  ELSE c

KeepChar(c) == c \notin {" ", "_"}

\* s.lower().replace(' ','').replace('_','')
Sanitize(s) == SelectSeq([i \in DOMAIN s |-> LowerChar(s[i])], KeepChar)

\* Duration.INF_NAMES without None
INF_NAMES ==
  {<<"i", "n", "f">>, <<"i", "n", "f", "i", "n", "i", "t", "y">>,
   <<"i", "n", "f", "i", "n", "i", "t", "e">>, <<"p", "e", "r", "m">>,
   <<"p", "e", "r", "m", "a", "n", "e", "n", "t">>,
   <<"f", "o", "r", "e", "v", "e", "r">>}

\* Duration.UNITS: the names of a unit and its multiplier, a number of
\* rounds (stat = "") or the value of the stat named
UNITS ==
  {[names |-> {<<>>, <<"r">>, <<"r", "d">>, <<"r", "d", "s">>,
               <<"r", "n", "d">>, <<"r", "n", "d", "s">>,
               <<"r", "o", "u", "n", "d">>, <<"r", "o", "u", "n", "d", "s">>},
    stat |-> "", n |-> 1],
   [names |-> {<<"m">>, <<"m", "i">>, <<"m", "i", "n">>,
               <<"m", "i", "n", "s">>, <<"m", "i", "n", "u", "t", "e">>,
               <<"m", "i", "n", "u", "t", "e", "s">>},
    stat |-> "", n |-> 10],
   [names |-> {<<"h">>, <<"h", "r">>, <<"h", "r", "s">>,
               <<"h", "o", "u", "r">>, <<"h", "o", "u", "r", "s">>},
    stat |-> "", n |-> 600],
   [names |-> {<<"d">>, <<"d", "a", "y">>, <<"d", "a", "y", "s">>},
    stat |-> "", n |-> 14400],
   [names |-> {<<"y">>, <<"y", "r">>, <<"y", "r", "s">>,
               <<"y", "e", "a", "r">>, <<"y", "e", "a", "r", "s">>},
    stat |-> "", n |-> 5259600],
   [names |-> {<<"l">>, <<"l", "v", "l">>, <<"l", "e", "v", "e", "l">>},
    stat |-> "level", n |-> 0],
   [names |-> {<<"c", "l">>, <<"c", "l", "v", "l">>,
               <<"c", "a", "s", "t", "e", "r">>,
               <<"c", "a", "s", "t", "e", "r", "l", "v", "l">>,
               <<"c", "a", "s", "t", "e", "r", "l", "e", "v", "e", "l">>},
    stat |-> "caster_level", n |-> 0]}

\* whether some unit of UNITS lists the name s; get_mult raises KeyError
\* when none does
KnownUnit(s) == \E u \in UNITS : s \in u.names

\* Duration.get_mult for a known name
GetMult(s) ==
  LET u == CHOOSE u \in UNITS : s \in u.names IN [stat |-> u.stat, n |-> u.n]

\* Duration.split_unit: the leading digits (or "1") and the rest
RECURSIVE LeadDigits(_)
LeadDigits(s) ==
  IF s = <<>> \/ ~IsInt(Head(s)) THEN 0 ELSE 1 + LeadDigits(Tail(s))

SplitUnit(s) ==
  [num |-> IF LeadDigits(s) = 0 THEN <<"1">> ELSE SubSeq(s, 1, LeadDigits(s)),
   unit |-> SubSeq(s, LeadDigits(s) + 1, Len(s))]

\* str.split(sep) for a separator of one character
RECURSIVE Split(_, _)
Split(s, sep) ==
  IF \A i \in DOMAIN s : s[i] # sep THEN <<s>>
  ELSE LET i == CHOOSE i \in DOMAIN s :
                   s[i] = sep /\ \A j \in 1..(i - 1) : s[j] # sep
       IN <<SubSeq(s, 1, i - 1)>> \o Split(SubSeq(s, i + 1, Len(s)), sep)

\* str.count(c)
Count(s, c) == Cardinality({i \in DOMAIN s : s[i] = c})

\* one term of the expression to_rds writes: "num*mult", followed by
\* "*max(1,int(mult/num))" when per holds the part after the slash
NoTerm == [num |-> <<>>, mult |-> [stat |-> "", n |-> 0], per |-> <<>>]

TermErr(err) == [err |-> err, term |-> NoTerm]

\* the part of one term after the slash
PerOf(a, b) ==
  IF ~KnownUnit(b.unit) THEN TermErr("KeyError")
  ELSE [err |-> "ok",
        term |-> [num |-> a.num, mult |-> GetMult(a.unit),
                  per |-> <<[mult |-> GetMult(b.unit), num |-> b.num]>>]]

\* the body of to_rds's loop once the term is split at the slash
TermOf(a, parts) ==
  IF ~KnownUnit(a.unit) THEN TermErr("KeyError")
  ELSE IF Len(parts) > 1 THEN PerOf(a, SplitUnit(parts[2]))
  ELSE [err |-> "ok",
        term |-> [num |-> a.num, mult |-> GetMult(a.unit), per |-> <<>>]]

ToRdsTerm(dur) ==
  IF Count(dur, "/") > 1 THEN TermErr("ValueError")
  ELSE TermOf(SplitUnit(Split(dur, "/")[1]), Split(dur, "/"))

\* what to_rds returns: the text of a literal (lit) or the terms of a sum
RdsErr(err) == [err |-> err, lit |-> <<>>, terms |-> <<>>]

RECURSIVE ToRdsTerms(_, _, _)
ToRdsTerms(durs, i, acc) ==
  IF i > Len(durs) THEN [err |-> "ok", lit |-> <<>>, terms |-> acc]
  ELSE LET r == ToRdsTerm(durs[i]) IN
       IF r.err # "ok" THEN RdsErr(r.err)
       ELSE ToRdsTerms(durs, i + 1, Append(acc, r.term))

\* Duration.to_rds(s); s is None, an int (val is str(s)) or a str
ToRds(s) ==
  IF s.typ = "int" THEN [err |-> "ok", lit |-> s.val, terms |-> <<>>]
  ELSE IF s.typ = "None" \/ Sanitize(s.val) \in INF_NAMES
  THEN [err |-> "ok", lit |-> <<"-", "1">>, terms |-> <<>>]
  ELSE ToRdsTerms(Split(Sanitize(s.val), "+"), 1, <<>>)

\* the value of a run of digits
RECURSIVE LitNum(_)
LitNum(s) ==
  IF s = <<>> THEN 0
  ELSE 10 * LitNum(SubSeq(s, 1, Len(s) - 1)) + DigitVal[s[Len(s)]]

\* the value of the text of an int
LitInt(s) == IF Head(s) = "-" THEN -LitNum(Tail(s)) ELSE LitNum(s)

\* python3 rejects a decimal literal with a leading zero unless it is zero
BadLiteral(s) == Len(s) > 1 /\ Head(s) = "0" /\ \E i \in DOMAIN s : s[i] # "0"

BadTerm(t) ==
  BadLiteral(t.num) \/ \E i \in DOMAIN t.per : BadLiteral(t.per[i].num)

\* whether the expression names a stat (the text "char.stats" after parse's
\* replacements)
RefsStats(terms) ==
  \E i \in DOMAIN terms :
    \/ terms[i].mult.stat # ""
    \/ \E j \in DOMAIN terms[i].per : terms[i].per[j].mult.stat # ""

RMul(x, y) == Norm(x[1] * y[1], x[2] * y[2])

\* int(x) of a number: towards zero
Trunc(x) == IF x[1] >= 0 THEN x[1] \div x[2] ELSE -((-x[1]) \div x[2])

\* a multiplier's value: the number of rounds or char.stats[stat].value
MultValue(m, char) ==
  CASE m.stat = "" -> Num(m.n)
    [] m.stat = "level" -> char.level
    [] m.stat = "caster_level" -> char.caster_level

\* a variant of PerFactor without the floor of one
PerFactorUnclamped(m, n) == Num(Trunc(RDiv(m, Num(n))))

\* "max(1,int(m/n))"
PerFactor(m, n) ==
  IF Trunc(RDiv(m, Num(n))) < 1 THEN Num(1) ELSE Num(Trunc(RDiv(m, Num(n))))

EvalOk(val) == [err |-> "ok", val |-> val]

EvalErr(err) == [err |-> err, val |-> None]

\* "...*max(1,int(m/n))" with base the product before it
EvalPer(base, m, n) ==
  IF m = None THEN EvalErr("TypeError")
  ELSE IF n = 0 THEN EvalErr("ZeroDivisionError")
  ELSE EvalOk(RMul(base, PerFactor(m, n)))

\* eval of one term
EvalTerm(t, char) ==
  IF MultValue(t.mult, char) = None THEN EvalErr("TypeError")
  ELSE IF t.per = <<>>
  THEN EvalOk(RMul(Num(LitNum(t.num)), MultValue(t.mult, char)))
  ELSE EvalPer(RMul(Num(LitNum(t.num)), MultValue(t.mult, char)),
               MultValue(t.per[1].mult, char), LitNum(t.per[1].num))

\* eval of the sum, left to right
RECURSIVE EvalTerms(_, _, _, _)
EvalTerms(terms, char, i, acc) ==
  IF i > Len(terms) THEN EvalOk(acc)
  ELSE LET r == EvalTerm(terms[i], char) IN
       IF r.err # "ok" THEN r
       ELSE EvalTerms(terms, char, i + 1, RAdd(acc, r.val))

\* eval(s) of the expression r
EvalRds(r, char) ==
  IF r.lit # <<>> THEN EvalOk(Num(LitInt(r.lit)))
  ELSE IF \E i \in DOMAIN r.terms : BadTerm(r.terms[i])
  THEN EvalErr("SyntaxError")
  ELSE EvalTerms(r.terms, char, 1, Num(0))

\* the rest of Duration.parse once to_rds has returned r
ParseRds(r, char) ==
  IF r.err # "ok" THEN EvalErr(r.err)
  ELSE IF RefsStats(r.terms) /\ ~char.present THEN EvalErr("ValueError")
  ELSE EvalRds(r, char)

\* Duration.parse(s, char): the error raised or the number of rounds
Parse(s, char) == ParseRds(ToRds(s), char)

\* Duration.expired
Expired(rounds) == rounds = 0

\* a variant of Advance without the floor of zero
AdvanceUnclamped(rounds, dur) ==
  IF dur.typ \notin {"int", "Duration"}
  THEN [err |-> "TypeError", rounds |-> rounds, ret |-> FALSE]
  ELSE IF rounds = INF THEN [err |-> "ok", rounds |-> rounds, ret |-> FALSE]
  ELSE [err |-> "ok", rounds |-> rounds - dur.val,
        ret |-> Expired(rounds - dur.val)]

\* Duration.advance(dur): dur is an int, a Duration (val is its rounds) or
\* something else
Advance(rounds, dur) ==
  IF dur.typ \notin {"int", "Duration"}
  THEN [err |-> "TypeError", rounds |-> rounds, ret |-> FALSE]
  ELSE IF rounds = INF THEN [err |-> "ok", rounds |-> rounds, ret |-> FALSE]
  ELSE [err |-> "ok",
        rounds |-> IF rounds - dur.val < 0 THEN 0 ELSE rounds - dur.val,
        ret |-> Expired(IF rounds - dur.val < 0 THEN 0 ELSE rounds - dur.val)]

\* Effect.__init__(name, bonuses, duration, text, active); active is None,
\* True or False; rounds and original are those of the Duration it owns
NewEffect(names, rounds, active) ==
  [char |-> FALSE, bonuses |-> names, active |-> active, last |-> active,
   rounds |-> rounds, original |-> rounds]

\* the body of Effect.plug's loop from the i-th bonus name on
RECURSIVE PlugBonuses(_, _, _, _, _)
PlugBonuses(st, bn, ef, e, i) ==
  IF i > Len(ef[e].bonuses) THEN {OutB(st, bn, "ok")}
  ELSE LET b == ef[e].bonuses[i]
           bn1 == [bn EXCEPT ![b].usedby = @ \cup {e}]
           outs == CASE ef[e].active = "None" -> {OutB(st, bn1, "ok")}
                     [] ef[e].active = "True" -> ToggleOutcomes(st, bn1, b, TRUE)
                     [] ef[e].active = "False" -> OffOutcomes(st, bn1, b, FALSE)
       IN UNION { IF o.err # "ok" THEN {o} ELSE PlugBonuses(o.st, o.bn, ef, e, i + 1)
                  : o \in outs }

\* Duration.NAMES
NAMES == << [num |-> 5259600, name |-> "yr"], [num |-> 14400, name |-> "day"],
            [num |-> 600, name |-> "hr"], [num |-> 10, name |-> "min"],
            [num |-> 1, name |-> "rd"] >>

\* the list s of Duration.__str__ from the i-th entry of NAMES on: each
\* '%s%s' % (x/num,name) is kept as the number x/num and the name
RECURSIVE StrParts(_, _)
StrParts(x, i) ==
  IF i > Len(NAMES) THEN <<>>
  ELSE IF NAMES[i].num < x
  THEN <<[count |-> RDiv(Num(x), Num(NAMES[i].num)), name |-> NAMES[i].name]>>
       \o StrParts(x % NAMES[i].num, i + 1)
  ELSE StrParts(x, i + 1)

\* str(duration): 'infinite', or the parts that '+'.join(s) puts together
DurationStr(rounds) ==
  IF rounds = INF THEN [infinite |-> TRUE, parts |-> <<>>]
  ELSE [infinite |-> FALSE, parts |-> StrParts(rounds, 1)]

(***************************************************************************)
(* Field.save and Field.load                                               *)
(***************************************************************************)
\* str(n) of an int
DigitChar == <<"0", "1", "2", "3", "4", "5", "6", "7", "8", "9">>

RECURSIVE NatText(_)
NatText(n) ==
  IF n < 10 THEN <<DigitChar[n + 1]>>
  ELSE NatText(n \div 10) \o <<DigitChar[(n % 10) + 1]>>

IntText(n) == IF n < 0 THEN <<"-">> \o NatText(-n) ELSE NatText(n)

\* str(b) of a bool
BoolText(b) == IF b THEN <<"True">> ELSE <<"False">>

\* a str field as text and back: the empty text is <<>>
TextOf(str) == IF str = "" THEN <<>> ELSE <<str>>

StrOf(text) == IF text = <<>> THEN "" ELSE text[1]

\* ','.join([str(x) for x in val])
RECURSIVE Join(_)
Join(list) ==
  IF list = <<>> THEN <<>>
  ELSE IF Len(list) = 1 THEN TextOf(list[1])
  ELSE TextOf(list[1]) \o <<",">> \o Join(Tail(list))

\* fields[i].split(',')
SplitList(text) == [i \in DOMAIN Split(text, ",") |-> StrOf(Split(text, ",")[i])]

\* Bonus.save(): name, value, stats, typ, condition, text, active
SaveBonus(bn, b) ==
  <<TextOf(b), IntText(bn[b].value), Join(bn[b].stats), TextOf(bn[b].typ),
    TextOf(bn[b].condition), <<>>, BoolText(bn[b].active)>>

\* Bonus.load(fields): Bonus(name, int(value), stats.split(','), typ,
\* condition, text, active == 'True')
LoadBonus(fields) ==
  NewBonus(LitInt(fields[2]), SplitList(fields[3]), StrOf(fields[4]),
           StrOf(fields[5]), fields[7] = <<"True">>)

\* Stat.save(): name, original, text, protected, updated; the text is empty
\* and the time of the update is the text of a float
SaveStat(st, k) ==
  <<NameText(k), st[k].original, <<>>, BoolText(st[k].protected), <<"updated">>>>

\* Stat.load(fields): Stat(name, original, text, None, protected == 'True',
\* float(updated))
LoadStat(fields) ==
  [NewStat(CHOOSE k \in StatNames : NameText(k) = fields[1], fields[2])
   EXCEPT !.protected = (fields[4] = <<"True">>)]

\* a variant of IsActive that reads the duration only
IsActiveDurationOnly(ef, e) == ef[e].rounds # 0

\* Effect.is_active: the flag when it was set by hand, else whether the
\* duration has rounds left
IsActive(ef, e) ==
  IF ef[e].active # "None" THEN ef[e].active = "True" ELSE ef[e].rounds # 0

\* the loop of Effect.toggle from the i-th bonus name on:
\* "for name in self.bonuses: self.char.bonuses[name].toggle(new)"
RECURSIVE ToggleBonuses(_, _, _, _, _, _)
ToggleBonuses(st, bn, ef, e, new, i) ==
  IF i > Len(ef[e].bonuses) THEN {OutB(st, bn, "ok")}
  ELSE IF ~ef[e].char THEN {OutB(st, bn, "AttributeError")}
  ELSE UNION { IF o.err # "ok" THEN {o}
               ELSE ToggleBonuses(o.st, o.bn, ef, e, new, i + 1)
               : o \in ToggleOutcomes(st, bn, ef[e].bonuses[i], new) }

\* a variant of Toggled that does not record the previous flag
ToggledKeepingLast(ef, e, new) ==
  [ef EXCEPT ![e].active = IF new THEN "True" ELSE "False"]

\* the loop of Effect.revert from the i-th bonus name on:
\* "for name in self.bonuses: self.char.bonuses[name].revert()"
RECURSIVE RevertBonuses(_, _, _, _, _)
RevertBonuses(st, bn, ef, e, i) ==
  IF i > Len(ef[e].bonuses) THEN {OutB(st, bn, "ok")}
  ELSE IF ~ef[e].char THEN {OutB(st, bn, "AttributeError")}
  ELSE UNION { IF o.err # "ok" THEN {o}
               ELSE RevertBonuses(o.st, o.bn, ef, e, i + 1)
               : o \in RevertOutcomes(st, bn, ef[e].bonuses[i]) }

\* the fields Effect.toggle(new) assigns before its loop
Toggled(ef, e, new) ==
  [ef EXCEPT ![e].last = ef[e].active,
             ![e].active = IF new THEN "True" ELSE "False"]

\* every way effect.unplug() can end: the loop reads the name char, which is
\* bound nowhere, so an attached Effect with a bonus raises NameError
EffectUnplugOutcomes(ef, e) ==
  IF ~ef[e].char THEN {[ef |-> ef, err |-> "RuntimeError"]}
  ELSE IF Len(ef[e].bonuses) > 0 THEN {[ef |-> ef, err |-> "NameError"]}
  ELSE {[ef |-> [ef EXCEPT ![e].char = FALSE], err |-> "ok"]}

(***************************************************************************)
(* The calls a user of the fields makes, one action per call               *)
(***************************************************************************)
Op(name, on, arg, res) == [name |-> name, on |-> on, arg |-> arg, res |-> res]

\* the bound on a formula cycle's runaway values
Bounded(st) ==
  \A k \in StatNames :
    /\ st[k].value # None => Abs(st[k].value[1]) <= MaxValue * st[k].value[2]
    /\ st[k].normal # None => Abs(st[k].normal[1]) <= MaxValue * st[k].normal[2]

NoBefore == [stage |-> 0, snap |-> NewStat("ac", <<>>)]

\* stat.plug(char)
Plug(n) ==
  \E o \in PlugOutcomes(stats, bonuses, n, order) :
    /\ Bounded(o.st)
    /\ stats' = o.st
    /\ op' = Op("plug", n, "", o.err)
    /\ before' = IF before.stage = 1 /\ op.on = n
                 THEN [before EXCEPT !.stage = 2]
                 ELSE NoBefore
    /\ UNCHANGED <<order, bonuses, effects>>

\* stat.unplug(), stat.unplug(force=True), stat.unplug(recursive=True)
Unplug(n, mode) ==
  \E o \in UnplugOutcomes(stats, n, mode = "force", mode = "recursive", 0) :
    /\ stats' = o.st
    /\ op' = Op("unplug", n, mode, o.err)
    /\ before' = IF op = Op("plug", n, "", "ok") /\ o.err = "ok"
                 THEN [stage |-> 1, snap |-> stats[n]]
                 ELSE NoBefore
    /\ UNCHANGED <<order, bonuses, effects>>

\* stat.set_formula(s)
SetFormula(n, f) ==
  /\ IF stats[n].char
     THEN stats' = stats /\ op' = Op("set_formula", n, "", "RuntimeError")
     ELSE /\ stats' = [stats EXCEPT ![n].formula = f, ![n].original = f]
          /\ op' = Op("set_formula", n, "", "ok")
  /\ before' = NoBefore
  /\ UNCHANGED <<order, bonuses, effects>>

\* stat.calc(); arg tells a call that repeats the call before it
Calc(n) ==
  \E o \in CalcOutcomes(stats, bonuses, n, 0) :
    /\ Bounded(o.st)
    /\ stats' = o.st
    /\ op' = Op("calc", n,
                IF op.name = "calc" /\ op.on = n /\ op.res = "ok"
                THEN "again" ELSE "", o.err)
    /\ before' = NoBefore
    /\ UNCHANGED <<order, bonuses, effects>>

\* a toggle() of an attached non-permanent bonus that returned leaves, for
\* the revert() calls directly after it, the flag and the values before it;
\* the plug() of a bonus directly after its construction is marked (stage 6)
BonusStep(o, name, b, arg) ==
  /\ Bounded(o.st)
  /\ stats' = o.st
  /\ bonuses' = o.bn
  /\ op' = Op(name, b, arg, o.err)
  /\ before' = IF /\ name = "bonus.toggle" /\ o.err = "ok"
                    /\ bonuses[b].char /\ ~IsPermanent(bonuses, b)
                 THEN [stage |-> 3,
                       snap |-> [active |-> bonuses[b].active,
                                 value |-> [t \in StatNames |-> stats[t].value]]]
                 ELSE IF name = "bonus.revert" /\ before.stage \in {3, 4} /\ op.on = b
                 THEN [before EXCEPT !.stage = @ + 1]
                 ELSE IF /\ name = "bonus.plug" /\ o.err = "ok"
                         /\ op.name = "Bonus" /\ op.on = b
                 THEN [NoBefore EXCEPT !.stage = 6]
                 ELSE NoBefore
  /\ UNCHANGED <<order, effects>>

\* bonus.plug(char), once per bonus and stat list
BonusPlug(b) ==
  /\ \A i \in DOMAIN bonuses[b].stats :
       ~InSeq(b, stats[bonuses[b].stats[i]].bonuses)
  /\ \E o \in BonusPlugOutcomes(stats, bonuses, b) : BonusStep(o, "bonus.plug", b, "")

\* bonus.unplug()
BonusUnplug(b) ==
  \E o \in BonusUnplugOutcomes(stats, bonuses, b) : BonusStep(o, "bonus.unplug", b, "")

\* bonus.toggle(new)
BonusToggle(b, new) ==
  \E o \in ToggleOutcomes(stats, bonuses, b, new) :
    BonusStep(o, "bonus.toggle", b, IF new THEN "True" ELSE "False")

\* bonus.on()
BonusOn(b) ==
  \E o \in ToggleOutcomes(stats, bonuses, b, TRUE) : BonusStep(o, "bonus.on", b, "")

\* bonus.off(force)
BonusOff(b, force) ==
  \E o \in OffOutcomes(stats, bonuses, b, force) :
    BonusStep(o, "bonus.off", b, IF force THEN "force" ELSE "")

\* bonus.revert()
BonusRevert(b) ==
  \E o \in RevertOutcomes(stats, bonuses, b) : BonusStep(o, "bonus.revert", b, "")

\* effect.plug(char)
EffectPlug(e) ==
  \E o \in PlugBonuses(stats, bonuses, effects, e, 1) :
    /\ Bounded(o.st)
    /\ stats' = o.st
    /\ bonuses' = o.bn
    /\ effects' = IF o.err = "ok" THEN [effects EXCEPT ![e].char = TRUE]
                  ELSE effects
    /\ op' = Op("effect.plug", e, "", o.err)
    /\ before' = NoBefore
    /\ UNCHANGED order

\* effect.toggle(new), reached through effect.on() and effect.off()
EffectStep(o, name, e, new) ==
  /\ Bounded(o.st)
  /\ stats' = o.st
  /\ bonuses' = o.bn
  /\ effects' = Toggled(effects, e, new)
  /\ op' = Op(name, e, "", o.err)
  /\ before' = NoBefore
  /\ UNCHANGED order

\* effect.on()
EffectOn(e) ==
  \E o \in ToggleBonuses(stats, bonuses, effects, e, TRUE, 1) :
    EffectStep(o, "effect.on", e, TRUE)

\* effect.off()
EffectOff(e) ==
  \E o \in ToggleBonuses(stats, bonuses, effects, e, FALSE, 1) :
    EffectStep(o, "effect.off", e, FALSE)

\* effect.unplug()
EffectUnplug(e) ==
  \E o \in EffectUnplugOutcomes(effects, e) :
    /\ effects' = o.ef
    /\ op' = Op("effect.unplug", e, "", o.err)
    /\ before' = NoBefore
    /\ UNCHANGED <<order, stats, bonuses>>

\* Duration(s, char) for the duration of effect e; s and char are the
\* arguments recorded in op
NewDuration(e) ==
  /\ op.name = "input"
  /\ op.on = e
  /\ LET r == Parse(op.arg.s, op.arg.char) IN
       /\ effects' = IF r.err # "ok" THEN effects
                     ELSE [effects EXCEPT ![e].rounds = r.val[1],
                                          ![e].original = r.val[1]]
       /\ op' = Op("Duration", e, op.arg, r.err)
  /\ before' = NoBefore
  /\ UNCHANGED <<order, stats, bonuses>>

\* the argument of advance with the rounds of a Duration read
AdvanceArg(ef, dur) ==
  [typ |-> dur.typ,
   val |-> IF dur.typ = "Duration" THEN ef[dur.of].rounds ELSE dur.val]

\* a variant of DurationAdvance that switches the effect off when the
\* duration expires
DurationAdvanceSwitching(e, dur) ==
  LET r == Advance(effects[e].rounds, AdvanceArg(effects, dur)) IN
    /\ r.rounds <= MaxRounds
    /\ effects' = [effects EXCEPT ![e].rounds = r.rounds,
                                  ![e].last = IF r.ret THEN effects[e].active ELSE @,
                                  ![e].active = IF r.ret THEN "False" ELSE @]
    /\ op' = Op("duration.advance", e, AdvanceArg(effects, dur).val,
                IF r.err # "ok" THEN r.err ELSE IF r.ret THEN "True" ELSE "False")
    /\ before' = NoBefore
    /\ UNCHANGED <<order, stats, bonuses>>

\* effect.duration.advance(dur)
DurationAdvance(e, dur) ==
  LET r == Advance(effects[e].rounds, AdvanceArg(effects, dur)) IN
    /\ r.rounds <= MaxRounds
    /\ effects' = [effects EXCEPT ![e].rounds = r.rounds]
    /\ op' = Op("duration.advance", e, AdvanceArg(effects, dur).val,
                IF r.err # "ok" THEN r.err ELSE IF r.ret THEN "True" ELSE "False")
    /\ before' = NoBefore
    /\ UNCHANGED <<order, stats, bonuses>>

\* effect.duration.reset()
DurationReset(e) ==
  /\ effects' = [effects EXCEPT ![e].rounds = effects[e].original]
  /\ op' = Op("duration.reset", e, "", "ok")
  /\ before' = NoBefore
  /\ UNCHANGED <<order, stats, bonuses>>

\* Bonus.load(bonus.save()): the fields saved and the bonus made of them
BonusReload(b) ==
  /\ op' = Op("bonus.load", b, SaveBonus(bonuses, b), "ok")
  /\ before' = [stage |-> 0, snap |-> LoadBonus(SaveBonus(bonuses, b))]
  /\ UNCHANGED <<order, stats, bonuses, effects>>

\* Stat.load(stat.save()): the fields saved and the stat made of them
StatReload(n) ==
  /\ op' = Op("stat.load", n, SaveStat(stats, n), "ok")
  /\ before' = [stage |-> 0, snap |-> LoadStat(SaveStat(stats, n))]
  /\ UNCHANGED <<order, stats, bonuses, effects>>

\* b = Bonus(name, value, stats, typ, cond=cond[, active=given]) put in place
\* of a bonus no stat lists yet; the keyword active is passed as True or
\* False or not at all ("unset"), and its default is True
BonusNew(b, cond, given) ==
  /\ ~bonuses[b].char
  /\ \A k \in StatNames : ~InSeq(b, stats[k].bonuses)
  /\ bonuses' = [bonuses EXCEPT
                   ![b] = NewBonus(@.value, @.stats, @.typ, cond,
                                    IF given = "unset" THEN TRUE
                                    ELSE given = "True")]
  /\ op' = Op("Bonus", b, [cond |-> cond, given |-> given], "ok")
  /\ before' = NoBefore
  /\ UNCHANGED <<order, stats, effects>>

\* effect.revert(): "self.active = self.last", then the loop
EffectRevert(e) ==
  \E o \in RevertBonuses(stats, bonuses, effects, e, 1) :
    /\ Bounded(o.st)
    /\ stats' = o.st
    /\ bonuses' = o.bn
    /\ effects' = [effects EXCEPT ![e].active = effects[e].last]
    /\ op' = Op("effect.revert", e, "", o.err)
    /\ before' = NoBefore
    /\ UNCHANGED order

\* str(effect.duration)
DurationString(e) ==
  /\ op' = Op("duration.str", e, "", DurationStr(effects[e].rounds))
  /\ before' = NoBefore
  /\ UNCHANGED <<order, stats, bonuses, effects>>

\* effect.is_active()
EffectIsActive(e) ==
  /\ op' = Op("effect.is_active", e, "",
              IF IsActive(effects, e) THEN "True" ELSE "False")
  /\ before' = NoBefore
  /\ UNCHANGED <<order, stats, bonuses, effects>>

(***************************************************************************)
(* Specification Spec: every call on the stats of the scenario             *)
(* dexterity > dex > ac; the bonuses stay detached.                        *)
(***************************************************************************)
FirstFormula(k) ==
  CASE k = "dexterity" -> <<"17">>
    [] k = "dex" -> <<"(", "$", "dex", "terity", "-", "10", ")", "/", "2">>
    [] k = "ac" -> <<"10", "+", "#", "dex">>

GraphBonuses ==
  [b \in BonusNames |->
     CASE b = "b1" -> NewBonus(4, <<"ac">>, "armor", "", TRUE)
       [] b = "b2" -> NewBonus(2, <<"dexterity">>, "dodge", "", TRUE)
       [] b = "b3" -> NewBonus(5, <<"dex">>, "inherent", "", FALSE)]

GraphEffects ==
  [e \in EffectNames |->
     CASE e = "e1" -> NewEffect(<<"b3">>, INF, "None")
       [] e = "e2" -> NewEffect(<<"b1", "b3">>, INF, "True")]

Init ==
  /\ order \in Orders
  /\ stats = [k \in StatNames |-> NewStat(k, FirstFormula(k))]
  /\ bonuses = GraphBonuses
  /\ effects = GraphEffects
  /\ op = Op("init", "", "", "ok")
  /\ before = NoBefore

UnplugModes == {"plain", "force", "recursive"}

Next ==
  \/ \E n \in StatNames : Plug(n)
  \/ \E n \in StatNames, mode \in UnplugModes : Unplug(n, mode)
  \/ \E n \in StatNames : \E f \in Formulas(n) : SetFormula(n, f)
  \/ \E n \in StatNames : Calc(n)

Spec == Init /\ [][Next]_vars

(***************************************************************************)
(* Properties of Stat.plug and Stat.unplug, checked under Spec             *)
(***************************************************************************)
\* the stats that depend on n, directly or through others, by usedby
RECURSIVE Reach(_, _, _)
Reach(st, seen, k) ==
  IF k = 0 THEN seen
  ELSE Reach(st, seen \cup UNION {st[t].usedby : t \in seen}, k - 1)

Dependants(st, n) == Reach(st, st[n].usedby, Cardinality(StatNames))

Detached(s) ==
  ~s.char /\ s.uses = {} /\ s.usedby = {} /\ s.formula = s.original

\* C4: after any sequence of plug and unplug calls, B is in A.uses exactly
\* when A is in B.usedby, for all stats A and B of the context.
C4_EdgesInverse ==
  \A a, b \in StatNames : (b \in stats[a].uses) <=> (a \in stats[b].usedby)

\* C5: a plug that fails with FormulaError leaves the failing stat's uses,
\* root flag, formula and owning context, and every other stat's usedby and
\* leaf flag, exactly as they were before the call.
C5_PlugAtomic ==
  [][(op'.name = "plug" /\ op'.res = "FormulaError") =>
       /\ stats'[op'.on].uses = stats[op'.on].uses
       /\ stats'[op'.on].root = stats[op'.on].root
       /\ stats'[op'.on].formula = stats[op'.on].formula
       /\ stats'[op'.on].char = stats[op'.on].char
       /\ \A k \in StatNames \ {op'.on} :
            /\ stats'[k].usedby = stats[k].usedby
            /\ stats'[k].leaf = stats[k].leaf]_vars

\* C6: unplug() without force and without recursive on an attached stat whose
\* usedby is not empty fails with DependencyError and changes nothing.
C6_UnplugRefused ==
  [][(/\ op'.name = "unplug"
      /\ op'.arg = "plain"
      /\ stats[op'.on].char
      /\ stats[op'.on].usedby # {}) =>
       /\ op'.res = "DependencyError"
       /\ stats' = stats
       /\ bonuses' = bonuses]_vars

C6_Witness ==
  /\ op.name = "unplug"
  /\ op.arg = "plain"
  /\ op.res = "DependencyError"
  /\ stats[op.on].char
  /\ stats[op.on].usedby # {}
  /\ \E k \in stats[op.on].usedby : stats[k].char /\ op.on \in stats[k].uses

\* C7: unplug(recursive=true) on an attached stat with dependents completes
\* without error and detaches the stat and every stat that transitively
\* depends on it.
C7_RecursiveDetaches ==
  [][(/\ op'.name = "unplug"
      /\ op'.arg = "recursive"
      /\ stats[op'.on].char
      /\ stats[op'.on].usedby # {}) =>
       /\ op'.res = "ok"
       /\ \A t \in {op'.on} \cup Dependants(stats, op'.on) :
            Detached(stats'[t])]_vars

CalcFormulas ==
  {<<"10", "+", "#", "dex">>, <<"$", "{", "dex", "}", "+", "$", "dex", "terity">>}

InitCalc ==
  /\ order = <<"dexterity", "dex", "ac">>
  /\ \E fa \in CalcFormulas :
       stats = [k \in StatNames |->
                  NewStat(k, IF k = "ac" THEN fa ELSE FirstFormula(k))]
  /\ bonuses = GraphBonuses
  /\ effects = GraphEffects
  /\ op = Op("init", "", "", "ok")
  /\ before = NoBefore

NextCalc ==
  \/ \E n \in StatNames : Plug(n)
  \/ \E n \in StatNames : Unplug(n, "force")
  \/ \E n \in StatNames : Calc(n)
  \/ BonusPlug("b2")
  \/ \E new \in BOOLEAN : BonusToggle("b2", new)

SpecCalc == InitCalc /\ [][NextCalc]_vars

\* the stats whose calc() the call o ran itself
CalcRoots(o, bn) ==
  IF o.name \in {"calc", "plug"} THEN {o.on}
  ELSE IF o.name \in {"bonus.plug", "bonus.unplug", "bonus.toggle"}
  THEN {bn[o.on].stats[i] : i \in DOMAIN bn[o.on].stats}
  ELSE {}

\* value and normal of t are what its formula and its active bonuses give
\* over the present fields of the stats it reads
Consistent(st, bn, t) ==
  LET en == Eval(st, t, NormalText(st[t].formula))
      ev == Eval(st, t, st[t].formula)
  IN /\ ~en.err
     /\ ~ev.err
     /\ ev.val # None
     /\ st[t].normal = en.val
     /\ st[t].value =
          RAdd(ev.val, Num(SumTypes(bn, st[t].bonuses,
                                    ActiveTypes(bn, st[t].bonuses))))

\* C1: when a calc() that returned changed its stat's value or normal, every
\* stat reachable from that stat through usedby holds the value and normal
\* its formula and active bonuses give over the present fields of the stats
\* it uses.
C1_NoStaleValue ==
  [][op'.res = "ok" =>
       \A n \in CalcRoots(op', bonuses') :
         Changed(stats[n].value, stats[n].normal, stats', n) =>
           \A t \in Dependants(stats', n) : Consistent(stats', bonuses', t)]_vars

BonusFormula(k) ==
  IF k = "dexterity" THEN <<"16", "+", "@", "protected">> ELSE FirstFormula(k)

InitBonus ==
  /\ order = <<"dexterity", "dex", "ac">>
  /\ stats = [k \in StatNames |-> NewStat(k, BonusFormula(k))]
  /\ \E a \in BOOLEAN :
       bonuses = [GraphBonuses EXCEPT
                    !["b3"] = NewBonus(5, <<"dex">>, "inherent", "", a)]
  /\ effects = GraphEffects
  /\ op = Op("init", "", "", "ok")
  /\ before = NoBefore

NextBonus ==
  \/ \E n \in StatNames : Plug(n)
  \/ \E b \in BonusNames : BonusPlug(b)
  \/ BonusUnplug("b1")
  \/ \E b \in BonusNames, new \in BOOLEAN : BonusToggle(b, new)
  \/ BonusOn("b3")
  \/ \E force \in BOOLEAN : BonusOff("b3", force)
  \/ BonusRevert("b3")
  \/ \E e \in EffectNames : EffectPlug(e)

SpecBonus == InitBonus /\ [][NextBonus]_vars

\* the stats named in the stats list of bonus b
Targets(bn, b) == {bn[b].stats[i] : i \in DOMAIN bn[b].stats}

C10_PermanentStaysOn ==
  [][(/\ op'.name \in {"bonus.toggle", "bonus.on", "bonus.off"}
      /\ bonuses[op'.on].char
      /\ bonuses[op'.on].condition = ""
      /\ bonuses[op'.on].typ \in BONUS_PERM) =>
       /\ bonuses[op'.on].active => bonuses'[op'.on].active
       /\ bonuses'[op'.on].last = bonuses[op'.on].last]_vars

C10_Witness ==
  /\ op = Op("bonus.off", "b3", "force", "ok")
  /\ bonuses["b3"].char
  /\ bonuses["b3"].typ \in BONUS_PERM
  /\ bonuses["b3"].active
  /\ bonuses["b3"].usedby # {}

(***************************************************************************)
(* Specification SpecStack: three bonuses of values 2, 3 and 5 on ac, each *)
(* of a type that stacks (dodge) or does not (armor), attached and         *)
(* switched in any order, the second one also detached.                    *)
(***************************************************************************)
StackTypes == {"dodge", "armor"}

StackValue(b) == CASE b = "b1" -> 2 [] b = "b2" -> 3 [] b = "b3" -> 5

InitStack ==
  /\ order = <<"dexterity", "dex", "ac">>
  /\ stats = [k \in StatNames |-> NewStat(k, BonusFormula(k))]
  /\ \E typ \in [BonusNames -> StackTypes] :
       bonuses = [b \in BonusNames |->
                    NewBonus(StackValue(b), <<"ac">>, typ[b], "", TRUE)]
  /\ effects = GraphEffects
  /\ op = Op("init", "", "", "ok")
  /\ before = NoBefore

NextStack ==
  \/ \E n \in StatNames : Plug(n)
  \/ \E b \in BonusNames : BonusPlug(b)
  \/ BonusUnplug("b2")
  \/ \E b \in BonusNames, new \in BOOLEAN : BonusToggle(b, new)

SpecStack == InitStack /\ [][NextStack]_vars

\* the bonuses of type typ in the list seq that are active
ActiveOf(bn, seq, typ) ==
  {b \in {seq[i] : i \in DOMAIN seq} : bn[b].typ = typ /\ bn[b].active}

RECURSIVE SumOver(_, _)
SumOver(bn, S) ==
  IF S = {} THEN 0
  ELSE LET b == CHOOSE x \in S : TRUE IN bn[b].value + SumOver(bn, S \ {b})

MaxOver(bn, S) ==
  LET b == CHOOSE x \in S : \A y \in S : bn[y].value <= bn[x].value IN bn[b].value

RECURSIVE Contribution(_, _, _)
Contribution(bn, seq, types) ==
  IF types = {} THEN 0
  ELSE LET t == CHOOSE x \in types : TRUE
           S == ActiveOf(bn, seq, t)
       IN (IF S = {} THEN 0
           ELSE IF Stacks(t) THEN SumOver(bn, S)
           ELSE MaxOver(bn, S))
          + Contribution(bn, seq, types \ {t})

\* C2: what calc() adds to the pre-bonus value of a stat is, summed over the
\* types on the stat, the sum of the active bonuses of a type that stacks and
\* the largest active bonus of a type that does not; inactive bonuses add
\* nothing.  Active 2, 3 and 5 give 10 when the type stacks, 5 when not.
C2_BonusContribution ==
  [][(op'.res = "ok" /\ "ac" \in CalcRoots(op', bonuses')) =>
       LET seq == stats'["ac"].bonuses
           all == ActiveOf(bonuses', seq, "dodge") \cup ActiveOf(bonuses', seq, "armor")
       IN /\ stats'["ac"].value =
               RAdd(stats'["ac"].normal,
                    Num(Contribution(bonuses', seq, StackTypes)))
          /\ ActiveOf(bonuses', seq, "dodge") = BonusNames =>
               stats'["ac"].value = RAdd(stats'["ac"].normal, Num(10))
          /\ ActiveOf(bonuses', seq, "armor") = BonusNames =>
               stats'["ac"].value = RAdd(stats'["ac"].normal, Num(5))
          /\ all = {} => stats'["ac"].value = stats'["ac"].normal]_vars

C2_Witness ==
  /\ op.name = "bonus.toggle"
  /\ op.arg = "True"
  /\ op.res = "ok"
  /\ ActiveOf(bonuses, stats["ac"].bonuses, "dodge") = BonusNames
  /\ stats["ac"].normal = Num(13)
  /\ stats["ac"].value = Num(23)

(***************************************************************************)
(* Specification SpecEffect: the effects e1 (on b1) and e2 (on b1 and b3)  *)
(* share the +4 armor bonus b1; stats, bonuses and effects are attached,   *)
(* the effects switched and detached, b1 switched off.                     *)
(***************************************************************************)
InitEffect ==
  /\ order = <<"dexterity", "dex", "ac">>
  /\ stats = [k \in StatNames |-> NewStat(k, BonusFormula(k))]
  /\ bonuses = GraphBonuses
  /\ \E a \in {"True", "False"} :
       effects = [e \in EffectNames |->
                    CASE e = "e1" -> NewEffect(<<"b1">>, INF, "True")
                      [] e = "e2" -> NewEffect(<<"b1", "b3">>, INF, a)]
  /\ op = Op("init", "", "", "ok")
  /\ before = NoBefore

NextEffect ==
  \/ \E n \in StatNames : Plug(n)
  \/ \E b \in {"b1", "b3"} : BonusPlug(b)
  \/ \E force \in BOOLEAN : BonusOff("b1", force)
  \/ \E e \in EffectNames : EffectPlug(e)
  \/ \E e \in EffectNames : EffectOn(e)
  \/ \E e \in EffectNames : EffectOff(e)
  \/ \E e \in EffectNames : EffectUnplug(e)

SpecEffect == InitEffect /\ [][NextEffect]_vars

\* the attached effects that name bonus b and are switched on
ActiveUsers(ef, b) ==
  {e \in EffectNames : /\ ef[e].char
                       /\ ef[e].active = "True"
                       /\ \E i \in DOMAIN ef[e].bonuses : ef[e].bonuses[i] = b}

\* C11: a bonus shared by effects stays active while any of them is.  When
\* two attached, active effects share an attached, active, non-permanent
\* bonus, effect.off() on one of them leaves the bonus active; effect.off()
\* on the last active one makes it inactive.
C11_SharedBonusStaysOn ==
  [][(op'.name = "effect.off" /\ op'.res = "ok") =>
       \A b \in BonusNames :
         (/\ op'.on \in ActiveUsers(effects, b)
          /\ bonuses[b].char /\ bonuses[b].active /\ ~IsPermanent(bonuses, b))
         => (bonuses'[b].active <=> ActiveUsers(effects', b) # {})]_vars

\* C12: bonus.off() respects the effects that use the bonus.  On an attached
\* bonus with a non-empty usedby, off() completes without error; unforced,
\* it leaves the bonus and the stats as they are when an effect of usedby
\* is active and switches the bonus off when none is; forced, it switches
\* the bonus off.
C12_OffRespectsEffects ==
  [][(/\ op'.name = "bonus.off"
      /\ bonuses[op'.on].char
      /\ bonuses[op'.on].usedby # {}) =>
       /\ op'.res = "ok"
       /\ op'.arg = "force" => ~bonuses'[op'.on].active
       /\ op'.arg = "" =>
            IF \E e \in bonuses[op'.on].usedby : IsActive(effects, e)
            THEN bonuses' = bonuses /\ stats' = stats
            ELSE ~bonuses'[op'.on].active]_vars

\* C13: the active flag of a bonus drives its contribution.  After plug and
\* after every toggle, on, off and revert that returns, the value of each
\* stat of an attached bonus is its normal plus the value of the bonus
\* exactly when the bonus is active (every stat of the scenario carries one
\* bonus), also for the permanent bonus b3 constructed with active false.
C13_ActiveDrivesContribution ==
  [][(/\ op'.name \in {"bonus.plug", "bonus.toggle", "bonus.on", "bonus.off",
                       "bonus.revert"}
      /\ op'.res = "ok"
      /\ bonuses'[op'.on].char) =>
       \A t \in Targets(bonuses', op'.on) :
         stats'[t].value =
           RAdd(stats'[t].normal,
                Num(IF bonuses'[op'.on].active THEN bonuses'[op'.on].value
                    ELSE 0))]_vars

(***************************************************************************)
(* Specification SpecDuration: the duration of effect e1 is constructed    *)
(* from a text and a character, then the durations of both effects are     *)
(* advanced and reset.  A text is written from its terms: a count, a unit  *)
(* name and, after a slash, a count and a stat unit.                       *)
(***************************************************************************)
Counts ==
  {[text |-> <<>>, n |-> 1],
   [text |-> <<"1">>, n |-> 1],
   [text |-> <<"2">>, n |-> 2],
   [text |-> <<"1", "2">>, n |-> 12],
   [text |-> <<"0", "1", "0">>, n |-> 10]}

PerCounts ==
  {[text |-> <<>>, n |-> 1],
   [text |-> <<"2">>, n |-> 2],
   [text |-> <<"0">>, n |-> 0],
   [text |-> <<"7">>, n |-> 7]}

UnitTexts ==
  {[kind |-> "round", text |-> <<>>],
   [kind |-> "round", text |-> <<"r", "d", "s">>],
   [kind |-> "minute", text |-> <<"m", "i", "n">>],
   [kind |-> "minute", text |-> <<"M", "i", "n", "u", "t", "e", "s">>],
   [kind |-> "hour", text |-> <<"h", "r">>],
   [kind |-> "hour", text |-> <<" ", "H", "o", "u", "r">>],
   [kind |-> "day", text |-> <<"d">>],
   [kind |-> "day", text |-> <<"_", "d", "a", "y", "s">>],
   [kind |-> "year", text |-> <<"y", "r">>],
   [kind |-> "level", text |-> <<"l", "v", "l">>],
   [kind |-> "caster_level", text |-> <<"c", "l">>],
   [kind |-> "unknown", text |-> <<"x">>]}

StatTexts ==
  {[kind |-> "caster_level", text |-> <<"C", "L">>],
   [kind |-> "level", text |-> <<" ", "L", "e", "v", "e", "l">>],
   [kind |-> "caster_level", text |-> <<"c", "a", "s", "t", "e", "r", "_", "l", "e", "v", "e", "l">>],
   [kind |-> "minute", text |-> <<"m", "i", "n">>]}

Pers ==
  {<<>>} \cup {<<[count |-> n, unit |-> u]>> : n \in PerCounts, u \in StatTexts}

DurTerms == {[count |-> c, unit |-> u, per |-> p] :
               c \in Counts, u \in UnitTexts, p \in Pers}

\* the terms written in the texts of two terms
SmallTerms ==
  {t \in DurTerms : /\ t.count.text \in {<<>>, <<"2">>}
                    /\ t.unit.text \in {<<"h", "r">>, <<"m", "i", "n">>}
                    /\ \A i \in DOMAIN t.per :
                         t.per[i].count.n = 2 /\ t.per[i].unit.text = <<"C", "L">>}

\* the text of one term
Render(t) ==
  t.count.text \o t.unit.text \o
  (IF t.per = <<>> THEN <<>>
   ELSE <<"/">> \o t.per[1].count.text \o t.per[1].unit.text)

Str(val) == [typ |-> "str", val |-> val]

\* the arguments of Duration(s, char), with the terms s was written from
DurSources ==
  {[kind |-> "terms", terms |-> <<t>>, s |-> Str(Render(t))] : t \in DurTerms}
  \cup {[kind |-> "terms", terms |-> <<t, u>>,
         s |-> Str(Render(t) \o <<" ", "+">> \o Render(u))] :
        t \in SmallTerms, u \in SmallTerms}
  \cup {[kind |-> "inf", terms |-> <<>>, s |-> s] :
        s \in {[typ |-> "None", val |-> <<>>], Str(<<"i", "n", "f">>),
               Str(<<"P", "e", "r", "m", "a", "n", "e", "n", "t">>),
               Str(<<" ", "f", "o", "r", "e", "v", "e", "r">>),
               [typ |-> "int", val |-> <<"-", "1">>]}}
  \cup {[kind |-> "other", terms |-> <<>>, s |-> s] :
        s \in {[typ |-> "int", val |-> <<"5">>],
               Str(<<"1", "/", "2", "/", "3">>),
               Str(<<"1", ".", "5", "h", "r">>)}}

\* a character is absent, or holds the values of its stats level and
\* caster_level
Chars ==
  {[present |-> FALSE, level |-> None, caster_level |-> None],
   [present |-> TRUE, level |-> Num(3), caster_level |-> Num(6)],
   [present |-> TRUE, level |-> Num(7), caster_level |-> Num(-3)],
   [present |-> TRUE, level |-> None, caster_level |-> Num(1)]}

InitDuration ==
  /\ order = <<"dexterity", "dex", "ac">>
  /\ stats = [k \in StatNames |-> NewStat(k, BonusFormula(k))]
  /\ bonuses = GraphBonuses
  /\ effects = GraphEffects
  /\ \E src \in DurSources, char \in Chars :
       op = Op("input", "e1", [s |-> src.s, char |-> char, src |-> src], "")
  /\ before = NoBefore

\* the arguments of advance: ints, the duration of an effect, a float
AdvanceArgs ==
  {[typ |-> "int", val |-> n, of |-> ""] : n \in {-1, 0, 1, 3, 14400}}
  \cup {[typ |-> "Duration", val |-> 0, of |-> f] : f \in EffectNames}
  \cup {[typ |-> "float", val |-> 1, of |-> ""]}

NextDuration ==
  \/ NewDuration("e1")
  \/ \E e \in EffectNames, dur \in AdvanceArgs : DurationAdvance(e, dur)
  \/ \E e \in EffectNames : DurationReset(e)

SpecDuration == InitDuration /\ [][NextDuration]_vars

\* C14: advance(n) on a finite duration makes rounds max(0, rounds - n) and
\* returns true exactly when rounds is then 0; on the infinite duration
\* (rounds = -1) it leaves rounds and returns false, whatever n is.
C14_Advance ==
  [][(op'.name = "duration.advance" /\ op'.res # "TypeError") =>
       IF effects[op'.on].rounds = -1
       THEN effects'[op'.on].rounds = -1 /\ op'.res = "False"
       ELSE /\ effects'[op'.on].rounds =
                 IF effects[op'.on].rounds - op'.arg > 0
                 THEN effects[op'.on].rounds - op'.arg ELSE 0
            /\ op'.res = IF effects'[op'.on].rounds = 0 THEN "True" ELSE "False"]_vars

C14_Witness ==
  /\ op = Op("duration.advance", "e1", 3, "True")
  /\ effects["e1"].original = 5
  /\ effects["e1"].rounds = 0

\* the multipliers of the time units, in rounds
TimeMult(kind) ==
  CASE kind = "round" -> 1
    [] kind = "minute" -> 10
    [] kind = "hour" -> 600
    [] kind = "day" -> 14400
    [] kind = "year" -> 5259600

TimeKinds == {"round", "minute", "hour", "day", "year"}

StatKinds == {"level", "caster_level"}

StatValue(char, kind) == IF kind = "level" THEN char.level ELSE char.caster_level

\* a text of count and time unit terms, each with at most a stat suffix
WellFormed(terms) ==
  \A i \in DOMAIN terms :
    /\ terms[i].unit.kind \in TimeKinds
    /\ \A j \in DOMAIN terms[i].per : terms[i].per[j].unit.kind \in StatKinds

\* the counts are plain numbers, no suffix divides by zero and the stat of
\* every suffix has a value
Evaluable(terms, char) ==
  \A i \in DOMAIN terms :
    /\ terms[i].count.text # <<"0", "1", "0">>
    /\ \A j \in DOMAIN terms[i].per :
         /\ terms[i].per[j].count.n # 0
         /\ char.present
         /\ StatValue(char, terms[i].per[j].unit.kind) # None

\* count x multiplier x max(1, floor(stat / N)) of one term
TermRounds(t, char) ==
  t.count.n * TimeMult(t.unit.kind) *
  (IF t.per = <<>> THEN 1
   ELSE LET q == StatValue(char, t.per[1].unit.kind)[1] \div t.per[1].count.n
        IN IF q < 1 THEN 1 ELSE q)

RECURSIVE TableRounds(_, _)
TableRounds(terms, char) ==
  IF terms = <<>> THEN 0
  ELSE TermRounds(Head(terms), char) + TableRounds(Tail(terms), char)

\* C15: Duration.parse yields the rounds of the unit table.  A text of
\* '+'-separated terms gives the sum of count x multiplier (round 1, minute
\* 10, hour 600, day 14400, year 5259600), a term with a suffix /<N><stat>
\* multiplied by max(1, floor(stat value / N)); no text and the infinite
\* names give -1; "1d" gives 14400, "2hr" 1200, "1/2CL" with caster level
\* 6 gives 3.
C15_ParseRounds ==
  op.name = "Duration" =>
    /\ op.arg.src.kind = "inf" =>
         op.res = "ok" /\ effects[op.on].rounds = -1
    /\ (op.arg.src.kind = "terms" /\ WellFormed(op.arg.src.terms)) =>
         /\ Evaluable(op.arg.src.terms, op.arg.char) => op.res = "ok"
         /\ op.res = "ok" =>
              effects[op.on].rounds = TableRounds(op.arg.src.terms, op.arg.char)
    /\ op.arg.s = Str(<<"1", "d">>) => effects[op.on].rounds = 14400
    /\ op.arg.s = Str(<<"2", "h", "r">>) => effects[op.on].rounds = 1200
    /\ (/\ op.arg.s = Str(<<"1", "/", "2", "C", "L">>)
        /\ op.arg.char.caster_level = Num(6)) => effects[op.on].rounds = 3

C15_Witness ==
  /\ op.name = "Duration"
  /\ op.res = "ok"
  /\ op.arg.s = Str(<<"1", "/", "2", "C", "L">>)
  /\ op.arg.char.caster_level = Num(6)
  /\ effects[op.on].rounds = 3
  /\ effects[op.on].original = 3

(***************************************************************************)
(* Specification SpecSave: the stats and the bonuses b1 (+4 armor on ac),  *)
(* b2 (-2 dodge on dexterity and dex while "flanked", a conditional bonus) *)
(* and b3 (+5 inherent on dex) are attached, b2 is switched, and all are   *)
(* saved and loaded again.                                                 *)
(***************************************************************************)
InitSave ==
  /\ order = <<"dexterity", "dex", "ac">>
  /\ stats = [k \in StatNames |-> NewStat(k, BonusFormula(k))]
  /\ bonuses = [GraphBonuses EXCEPT
                  !["b2"] = NewBonus(-2, <<"dexterity", "dex">>, "dodge",
                                     "flanked", TRUE)]
  /\ effects = GraphEffects
  /\ op = Op("init", "", "", "ok")
  /\ before = NoBefore

NextSave ==
  \/ \E n \in StatNames : Plug(n)
  \/ \E b \in BonusNames : BonusPlug(b)
  \/ \E new \in BOOLEAN : BonusToggle("b2", new)
  \/ \E b \in BonusNames : BonusReload(b)
  \/ \E n \in StatNames : StatReload(n)

SpecSave == InitSave /\ [][NextSave]_vars

\* C16: Field.load(x.save()) gives back every field that is saved.  The
\* bonus made of the saved fields of a bonus has its value, stats, typ,
\* condition and active flag, also when the bonus is conditional and has
\* been switched on; the stat made of the saved fields of a stat has its
\* original formula and protected flag, also when the stat is attached.
C16_LoadSaveRoundTrip ==
  /\ op.name = "bonus.load" =>
       /\ before.snap.value = bonuses[op.on].value
       /\ before.snap.stats = bonuses[op.on].stats
       /\ before.snap.typ = bonuses[op.on].typ
       /\ before.snap.condition = bonuses[op.on].condition
       /\ before.snap.active = bonuses[op.on].active
  /\ op.name = "stat.load" =>
       /\ before.snap.original = stats[op.on].original
       /\ before.snap.protected = stats[op.on].protected

(***************************************************************************)
(* Specification SpecCycle: ac is attached with the formula 10, detached,  *)
(* given a formula that reads its own value ($ac+1 or $ac*0) and attached  *)
(* again, which makes ac a dependant of itself.                            *)
(***************************************************************************)
InitCycle ==
  /\ order = <<"dexterity", "dex", "ac">>
  /\ stats = [k \in StatNames |->
                NewStat(k, IF k = "ac" THEN <<"10">> ELSE FirstFormula(k))]
  /\ bonuses = GraphBonuses
  /\ effects = GraphEffects
  /\ op = Op("init", "", "", "ok")
  /\ before = NoBefore

NextCycle ==
  \/ \E n \in StatNames : Plug(n)
  \/ \E mode \in UnplugModes : Unplug("ac", mode)
  \/ \E f \in { <<"10">>, <<"$", "ac", "+", "1">>, <<"$", "ac", "*", "0">> } :
       SetFormula("ac", f)
  \/ \E n \in StatNames : Calc(n)

SpecCycle == InitCycle /\ [][NextCycle]_vars

\* C17: a formula cycle is caught by a guard of calc.  A calc() of an
\* attached stat that is a dependant of itself through usedby, called
\* directly or at the end of plug, ends with an error of its own: it neither
\* returns normally nor runs into the recursion limit of the interpreter.
C17_CycleCaught ==
  [][(/\ op'.name \in {"calc", "plug"}
      /\ stats'[op'.on].char
      /\ op'.on \in Dependants(stats', op'.on)
      /\ op'.res # "FormulaError") =>
       op'.res \notin {"ok", "RecursionError"}]_vars

\* C18: unplug() of an attached bonus that an effect still uses (usedby is
\* not empty) fails with DependencyError and leaves the bonus attached to
\* all its stats.
C18_BonusUnplugRefused ==
  [][(/\ op'.name = "bonus.unplug"
      /\ bonuses[op'.on].char
      /\ bonuses[op'.on].usedby # {}) =>
       /\ op'.res = "DependencyError"
       /\ bonuses'[op'.on].char
       /\ \A t \in Targets(bonuses, op'.on) :
            InSeq(op'.on, stats'[t].bonuses)]_vars

\* C19: a call that needs attachment fails on a detached entity and leaves
\* it as it was: calc and unplug of a stat, unplug, toggle, on, off and
\* revert of a bonus, unplug of an effect; and set_formula on an attached
\* stat fails and leaves formula and original.
C19_NotAttached ==
  [][/\ (op'.name \in {"calc", "unplug"} /\ ~stats[op'.on].char) =>
          op'.res # "ok" /\ stats' = stats
     /\ (/\ op'.name \in {"bonus.unplug", "bonus.toggle", "bonus.on",
                          "bonus.off", "bonus.revert"}
         /\ ~bonuses[op'.on].char) =>
          op'.res # "ok" /\ bonuses' = bonuses /\ stats' = stats
     /\ (op'.name = "effect.unplug" /\ ~effects[op'.on].char) =>
          op'.res # "ok" /\ effects' = effects /\ bonuses' = bonuses
     /\ (op'.name = "set_formula" /\ stats[op'.on].char) =>
          op'.res # "ok" /\ stats' = stats]_vars

\* C20: unplug() of an attached effect undoes its registration: it returns
\* without error, the name of the effect is in the usedby of none of its
\* bonuses and the effect is detached.
C20_EffectUnplugReverses ==
  [][(op'.name = "effect.unplug" /\ effects[op'.on].char) =>
       /\ op'.res = "ok"
       /\ ~effects'[op'.on].char
       /\ \A i \in DOMAIN effects[op'.on].bonuses :
            op'.on \notin bonuses'[effects[op'.on].bonuses[i]].usedby]_vars

\* C21: division in a formula rounds down to an integer.  With dexterity
\* 17 the stat dex with the formula ($dexterity-10)/2 has the value 3, and
\* value and normal of every stat are integers (the formulas and bonuses of
\* the scenario are integer-valued).
C21_DivisionRoundsDown ==
  /\ \A k \in StatNames :
       /\ stats[k].value # None => IsInteger(stats[k].value)
       /\ stats[k].normal # None => IsInteger(stats[k].normal)
  /\ (/\ op.name = "plug" /\ op.on = "dex" /\ op.res = "ok"
      /\ stats["dexterity"].value = Num(17)) =>
       stats["dex"].value = Num(3)

InitActive ==
  /\ order = <<"dexterity", "dex", "ac">>
  /\ stats = [k \in StatNames |-> NewStat(k, BonusFormula(k))]
  /\ bonuses = GraphBonuses
  /\ \E r \in [EffectNames -> {INF, 0, 2, 3}],
        a \in [EffectNames -> {"None", "True", "False"}] :
       effects = [e \in EffectNames |->
                    NewEffect(GraphEffects[e].bonuses, r[e], a[e])]
  /\ op = Op("init", "", "", "ok")
  /\ before = NoBefore

NextActive ==
  \/ \E e \in EffectNames, dur \in AdvanceArgs : DurationAdvance(e, dur)
  \/ \E e \in EffectNames : DurationReset(e)
  \/ \E e \in EffectNames : EffectIsActive(e)

SpecActive == InitActive /\ [][NextActive]_vars

InitRevert ==
  /\ order = <<"dexterity", "dex", "ac">>
  /\ stats = [k \in StatNames |-> NewStat(k, BonusFormula(k))]
  /\ bonuses = [b \in BonusNames |->
                  CASE b = "b1" -> NewBonus(4, <<"ac">>, "armor", "", FALSE)
                    [] b = "b2" -> NewBonus(2, <<"dex">>, "dodge", "", TRUE)
                    [] b = "b3" -> NewBonus(5, <<"dex">>, "inherent", "", FALSE)]
  /\ \E a \in {"None", "True"} :
       effects = [e \in EffectNames |->
                    CASE e = "e1" -> NewEffect(<<"b1">>, INF, a)
                      [] e = "e2" -> NewEffect(<<"b1">>, INF, "True")]
  /\ op = Op("init", "", "", "ok")
  /\ before = NoBefore

NextRevert ==
  \/ \E n \in StatNames : Plug(n)
  \/ \E b \in BonusNames : BonusPlug(b)
  \/ \E new \in BOOLEAN : BonusToggle("b2", new)
  \/ BonusRevert("b2")
  \/ \E e \in EffectNames : EffectPlug(e)
  \/ EffectOff("e1")
  \/ EffectOn("e2")
  \/ \E e \in EffectNames : EffectRevert(e)

SpecRevert == InitRevert /\ [][NextRevert]_vars

\* the effects other than e that name bonus b, are attached, and whose
\* is_active() is true
ActiveSiblings(ef, e, b) ==
  {x \in EffectNames \ {e} :
     /\ ef[x].char
     /\ IsActive(ef, x)
     /\ \E i \in DOMAIN ef[x].bonuses : ef[x].bonuses[i] = b}

\* C24: effect.revert() restores the effect's active to last and does not
\* disturb shared bonuses.  After a revert() that returned, the effect's
\* active is what its last was, and every attached bonus it names that is
\* also named by another attached effect whose is_active() is true is active.
C24_RevertKeepsShared ==
  [][(op'.name = "effect.revert" /\ op'.res = "ok") =>
       /\ effects'[op'.on].active = effects[op'.on].last
       /\ \A b \in BonusNames :
            (/\ bonuses[b].char
             /\ \E i \in DOMAIN effects[op'.on].bonuses :
                  effects[op'.on].bonuses[i] = b
             /\ ActiveSiblings(effects', op'.on, b) # {})
            => bonuses'[b].active]_vars

\* C25: toggle(new) on an attached non-permanent bonus records active into
\* last and sets active to new; the revert() directly after it restores
\* active and the value of every target stat to what they were before the
\* toggle, and the second revert() changes neither bonuses nor stats.
C25_ToggleRevert ==
  [][
      /\ (before'.stage = 3) =>
          (/\ bonuses'[op'.on].last = bonuses[op'.on].active
           /\ bonuses'[op'.on].active = (op'.arg = "True"))
      /\ (before'.stage = 4) =>
          (/\ bonuses'[op'.on].active = before'.snap.active
           /\ \A i \in DOMAIN bonuses[op'.on].stats :
                stats'[bonuses[op'.on].stats[i]].value
                  = before'.snap.value[bonuses[op'.on].stats[i]])
      /\ (before'.stage = 5) =>
          (/\ bonuses' = bonuses
           /\ stats' = stats)
    ]_vars

\* ---------------------------------------------------------------------
\* construction of bonuses with and without a condition and an active value
InitNew ==
  /\ order = <<"dexterity", "dex", "ac">>
  /\ stats = [k \in StatNames |-> NewStat(k, BonusFormula(k))]
  /\ bonuses = GraphBonuses
  /\ effects = GraphEffects
  /\ op = Op("init", "", "", "ok")
  /\ before = NoBefore

NextNew ==
  \/ \E n \in StatNames : Plug(n)
  \/ \E b \in BonusNames, cond \in {"", "flanked"},
        given \in {"unset", "True", "False"} :
       BonusNew(b, cond, given)
  \/ \E b \in {"b1", "b3"} : BonusPlug(b)
  \/ \E b \in {"b1", "b3"} : BonusRevert(b)

SpecNew == InitNew /\ [][NextNew]_vars

\* C26: a new Bonus is inactive exactly when it has a condition and no
\* active value was given: a given active value is the bonus's active, with
\* or without a condition, and without one the bonus is active exactly when
\* it has no condition.
C26_ExplicitActiveKept ==
  op.name = "Bonus" =>
    bonuses[op.on].active = IF op.arg.given = "unset"
                            THEN op.arg.cond = ""
                            ELSE op.arg.given = "True"

\* the bonuses effect e names
NamedBy(ef, e) == {ef[e].bonuses[i] : i \in DOMAIN ef[e].bonuses}

\* C27: effect.plug registers the effect with every bonus it names and
\* matches them to its active.  With all named bonuses attached, plug puts
\* the effect's name in the usedby of each; when active is True or False it
\* returns without error and every named non-permanent bonus used by no other
\* effect has active equal to the effect's; when active is unset no bonus's
\* active and no stat's value changes.
C27_PlugMatchesActive ==
  [][(/\ op'.name = "effect.plug"
      /\ \A b \in NamedBy(effects, op'.on) : bonuses[b].char) =>
       /\ op'.res = "ok"
       /\ \A b \in NamedBy(effects, op'.on) : op'.on \in bonuses'[b].usedby
       /\ effects[op'.on].active # "None" =>
            \A b \in NamedBy(effects, op'.on) :
              (~IsPermanent(bonuses, b) /\ bonuses'[b].usedby = {op'.on})
              => (bonuses'[b].active <=> effects[op'.on].active = "True")
       /\ effects[op'.on].active = "None" =>
            /\ \A b \in BonusNames : bonuses'[b].active = bonuses[b].active
            /\ \A k \in StatNames : stats'[k].value = stats[k].value]_vars

\* C28: the flags root and leaf follow the edge sets.  After any sequence of
\* plug and unplug calls, plain, forced or recursive, returning or raising,
\* every stat has root exactly when its uses is empty and leaf exactly when
\* its usedby is empty.
C28_FlagsFollowEdges ==
  \A k \in StatNames :
    /\ stats[k].root <=> stats[k].uses = {}
    /\ stats[k].leaf <=> stats[k].usedby = {}

\* the known stat a sigil at position i of formula f refers to, as a set:
\* braced, the name between the braces; bare, the longest known name that
\* follows the sigil
RefAt(f, i) ==
  LET rest == Drop(f, i)
      bare == {k \in StatNames : IsPrefix(NameText(k), rest)}
  IN IF f[i] \notin {"$", "#"} THEN {}
     ELSE IF rest # <<>> /\ Head(rest) = "{"
     THEN {k \in StatNames : IsPrefix(<<"{">> \o NameText(k) \o <<"}">>, rest)}
     ELSE {k \in bare : \A x \in bare : Len(NameText(x)) <= Len(NameText(k))}

\* the known stats formula f references
Refs(f) == UNION {RefAt(f, i) : i \in DOMAIN f}

InitStr ==
  /\ order = <<"dexterity", "dex", "ac">>
  /\ stats = [k \in StatNames |-> NewStat(k, BonusFormula(k))]
  /\ bonuses = GraphBonuses
  /\ \E r \in {INF} \cup (0 .. 40) \cup (598 .. 611) \cup (14399 .. 14411)
                  \cup {15011, 5259599, 5259600, 5259601} :
       effects = [e \in EffectNames |-> NewEffect(GraphEffects[e].bonuses, r, "None")]
  /\ op = Op("init", "", "", "ok")
  /\ before = NoBefore

NextStr == \E e \in EffectNames : DurationString(e)

SpecStr == InitStr /\ [][NextStr]_vars

\* the size of the unit called name
UnitSize(name) == (CHOOSE i \in DOMAIN NAMES : NAMES[i].name = name)

\* the rounds a part stands for: its count times its unit's size
PartRounds(p) == (p.count[1] * (NAMES[UnitSize(p.name)].num \div p.count[2]))

RECURSIVE SumParts(_)
SumParts(ps) == IF ps = <<>> THEN 0 ELSE PartRounds(Head(ps)) + SumParts(Tail(ps))

\* the largest unit of which rounds holds at least one
LargestUnit(rounds) ==
  NAMES[CHOOSE i \in DOMAIN NAMES :
          /\ NAMES[i].num <= rounds
          /\ \A j \in DOMAIN NAMES : NAMES[j].num <= rounds => i <= j].name

\* C30: the string form of a finite duration is the greedy decomposition of
\* its rounds.  For rounds >= 1 the parts' counts are whole numbers, their
\* counts times their unit sizes sum to rounds, and the first part is in the
\* largest unit that rounds holds at least one of: 14400 rounds is 1 day and
\* 1 round is 1 rd.
C30_StrDecomposes ==
  (op.name = "duration.str" /\ effects[op.on].rounds >= 1) =>
    /\ ~op.res.infinite
    /\ op.res.parts # <<>>
    /\ \A i \in DOMAIN op.res.parts : IsInteger(op.res.parts[i].count)
    /\ \A i \in DOMAIN op.res.parts :
         NAMES[UnitSize(op.res.parts[i].name)].num % op.res.parts[i].count[2] = 0
    /\ SumParts(op.res.parts) = effects[op.on].rounds
    /\ op.res.parts[1].name = LargestUnit(effects[op.on].rounds)

\* C31: a finite duration stays within 0 and original.  Under any sequence
\* of advance and reset calls, with advance given any integer or another
\* duration, finite or infinite, a duration whose original is finite has
\* 0 <= rounds <= original, no advance makes its rounds larger, and original
\* is not changed.
C31_RoundsWithinOriginal ==
  [][\A e \in EffectNames :
       /\ effects'[e].original = effects[e].original
       /\ effects[e].original # INF =>
            /\ 0 <= effects'[e].rounds
            /\ effects'[e].rounds <= effects'[e].original
            /\ (op'.name = "duration.advance" /\ op'.on = e)
               => effects'[e].rounds <= effects[e].rounds]_vars

\* C32: unplug() of an attached stat that no stat uses always succeeds.
\* Whatever plug and unplug calls came before, plain, forced or recursive,
\* returning or raising, unplug() on a stat that has a context and an empty
\* usedby returns and leaves the stat detached: no context, uses and usedby
\* empty, formula the original text.
C32_UnplugUnusedSucceeds ==
  [][(/\ op'.name = "unplug"
      /\ stats[op'.on].char
      /\ stats[op'.on].usedby = {}) =>
       /\ op'.res = "ok"
       /\ Detached(stats'[op'.on])]_vars

\* C33: revert() on a new bonus changes nothing.  A bonus just constructed
\* has last equal to active, with or without a condition, and a revert()
\* directly after its construction and plug changes neither its active nor
\* the value of any stat.
C33_FreshRevertNoChange ==
  [][/\ op'.name = "Bonus" => bonuses'[op'.on].last = bonuses'[op'.on].active
     /\ (op'.name = "bonus.revert" /\ before.stage = 6 /\ op.on = op'.on) =>
          /\ bonuses'[op'.on].active = bonuses[op'.on].active
          /\ \A k \in StatNames : stats'[k].value = stats[k].value]_vars

\* C34: an attached permanent bonus is always active.  In every state
\* reached by plug, on, off, toggle and revert on bonuses and plug on
\* effects, a bonus that is attached, has no condition and is of a permanent
\* category has active true, whichever active it was constructed with.
C34_PermanentAlwaysActive ==
  \A b \in BonusNames :
    (bonuses[b].char /\ IsPermanent(bonuses, b)) => bonuses[b].active

(***************************************************************************)
(* Specification SpecExpire: b1 (+4 armor on ac) is attached, e1 with a    *)
(* duration of 2 rounds and active unset and e2 with the infinite          *)
(* duration name it and are attached; the durations are advanced and       *)
(* reset, is_active() is read and b1 is switched by hand.                  *)
(***************************************************************************)
InitExpire ==
  /\ order = <<"dexterity", "dex", "ac">>
  /\ stats = [k \in StatNames |-> NewStat(k, BonusFormula(k))]
  /\ bonuses = GraphBonuses
  /\ \E a \in {"None", "True"} :
       effects = [e \in EffectNames |->
                    CASE e = "e1" -> NewEffect(<<"b1">>, 2, "None")
                      [] e = "e2" -> NewEffect(<<"b1">>, INF, a)]
  /\ op = Op("init", "", "", "ok")
  /\ before = NoBefore

NextExpire ==
  \/ \E n \in StatNames : Plug(n)
  \/ BonusPlug("b1")
  \/ \E new \in BOOLEAN : BonusToggle("b1", new)
  \/ \E e \in EffectNames : EffectPlug(e)
  \/ \E e \in EffectNames, dur \in AdvanceArgs : DurationAdvance(e, dur)
  \/ \E e \in EffectNames : DurationReset(e)
  \/ \E e \in EffectNames : EffectIsActive(e)

SpecExpire == InitExpire /\ [][NextExpire]_vars

\* C35: advance and reset of an effect's duration change only its rounds.
\* After either call every other field of every effect (active, last, the
\* bonus names, the context, original) is as before, and so are all bonuses
\* and all stats: the bonuses of an effect with unset active stay active when
\* its duration expires.
C35_DurationFrame ==
  [][op'.name \in {"duration.advance", "duration.reset"} =>
       /\ \A e \in EffectNames :
            effects'[e] = [effects[e] EXCEPT
                             !.rounds = IF e = op'.on THEN effects'[e].rounds ELSE @]
       /\ bonuses' = bonuses
       /\ stats' = stats]_vars

\* reached: e1 (active unset) and b1 are attached, e1's duration has been
\* advanced to 0 and is_active() has returned false; b1 is still active and
\* ac still counts it
C35_Witness ==
  /\ op = Op("effect.is_active", "e1", "", "False")
  /\ effects["e1"].char
  /\ effects["e1"].active = "None"
  /\ effects["e1"].rounds = 0
  /\ effects["e1"].original = 2
  /\ bonuses["b1"].char
  /\ bonuses["b1"].active
  /\ "e1" \in bonuses["b1"].usedby
  /\ stats["ac"].value = Num(17)

=============================================================================
